---- MODULE Spec2Model ----
(***************************************************************************)
(* HiveMind task orchestration: the response parser (models.py), the task  *)
(* queue (core/task_queue.py), the agent (core/agent.py, core/tools.py)    *)
(* and the recursive workflow engine (workflow.py).                        *)
(***************************************************************************)
EXTENDS Integers, Sequences, FiniteSets, TLC

(***************************************************************************)
(* Bounds of the model.                                                    *)
(***************************************************************************)
\* total number of tasks admitted to queues in one run
MaxTasks == 3
\* total number of Agent.generate_response calls in one run
MaxCalls == 5
\* number of tasks of a document handed to the parser on its own
MaxDocTasks == 2
\* number of tokens after the plain characters of a string literal
MaxToks == 2
\* number of characters after the plain ones of a tool_params string value
MaxChars == 2
\* number of tasks handed to a task queue driven on its own
MaxQueued == 3

(***************************************************************************)
(* Program constants.                                                      *)
(***************************************************************************)
MAX_RETRIES == 3
MAX_RETRY_ATTEMPTS == 3
MinTitleLen == 3
MinDescriptionLen == 10
MinInstructionsLen == 20
MinActivityLen == 5
\* CompletionTask.result: "minimum meaningful length"; the weakest reading
MinResultLen == 1

(***************************************************************************)
(* Text.  A string literal of a raw response is a run of `pad' plain ASCII *)
(* characters followed by a few tokens of the JSON text:                   *)
(*   "c"       a plain ASCII character that is no JSON escape letter       *)
(*   "b"       the letter b                                                *)
(*   "esc_bs"  the two characters \\  (JSON for one backslash)             *)
(*   "esc_nl"  the two characters \n  (JSON for a newline)                 *)
(*   "esc_qt"  the two characters \"  (JSON for a quote)                   *)
(*   "u8"      one non-ASCII character (two bytes in UTF-8)                *)
(* A string value is a run of `pad' plain characters followed by chars.    *)
(***************************************************************************)
RawTok == {"c", "b", "esc_bs", "esc_nl", "esc_qt", "u8"}

Lit(n, toks) == [present |-> TRUE, pad |-> n, toks |-> toks]
NoLit == [present |-> FALSE, pad |-> 0, toks |-> <<>>]
NoName == "<absent>"

Val(n, chars) == [pad |-> n, chars |-> chars]
NoVal == Val(0, <<>>)
ValLen(v) == v.pad + Len(v.chars)

\* response.encode('utf-8').decode('unicode-escape'): every escape sequence
\* of the text is replaced by the character it names, and every byte of a
\* UTF-8 sequence becomes a Latin-1 character of its own
RECURSIVE unicode_escape(_)
unicode_escape(toks) ==
    IF toks = <<>> THEN <<>>
    ELSE LET t == Head(toks)
             out == CASE t = "c" -> <<"c">>
                      [] t = "b" -> <<"b">>
                      [] t = "esc_bs" -> <<"BSL">>
                      [] t = "esc_nl" -> <<"LF">>
                      [] t = "esc_qt" -> <<"QT">>
                      [] t = "u8" -> <<"C3", "A9">>
         IN out \o unicode_escape(Tail(toks))

\* the JSON parser on the characters of a cleaned string literal: a raw
\* control character or a raw quote inside the literal is an error, a
\* backslash starts an escape and must be followed by an escape letter
JsonFail == [ok |-> FALSE, chars |-> <<>>]
RECURSIVE JsonString(_)
JsonString(raw) ==
    IF raw = <<>> THEN [ok |-> TRUE, chars |-> <<>>]
    ELSE LET h == Head(raw) IN
         IF h \in {"LF", "QT"} THEN JsonFail
         ELSE IF h = "BSL"
              THEN IF Len(raw) < 2 THEN JsonFail
                   ELSE LET n == raw[2]
                            rest == JsonString(SubSeq(raw, 3, Len(raw)))
                            ch == CASE n = "BSL" -> "BSL"
                                    [] n = "b" -> "BS"
                                    [] n = "QT" -> "QT"
                                    [] OTHER -> "bad"
                        IN IF ch = "bad" \/ ~rest.ok THEN JsonFail
                           ELSE [ok |-> TRUE, chars |-> <<ch>> \o rest.chars]
              ELSE LET rest == JsonString(Tail(raw))
                   IN IF ~rest.ok THEN JsonFail
                      ELSE [ok |-> TRUE, chars |-> <<h>> \o rest.chars]

\* a literal of the response as the parser reads it after the cleaning
ReadLit(s) == JsonString(unicode_escape(s.toks))
LitOk(s) == (~s.present) \/ ReadLit(s).ok
LitVal(s) == Val(s.pad, ReadLit(s).chars)

(***************************************************************************)
(* The response document.  A response is either text that is no JSON       *)
(* object (form "text") or a JSON object with an optional activity and an  *)
(* optional tasks array of task objects.  A task object carries any of the *)
(* fields of the three variants; NoName and NoLit stand for a missing      *)
(* field.  tool_params is a mapping with at most the key "path".           *)
(***************************************************************************)
RawTask(ty, title, descr, tool, params, agent, instr, res) ==
    [task_type |-> ty, title |-> title, description |-> descr,
     tool_name |-> tool, tool_params |-> params,
     agent_name |-> agent, instructions |-> instr, result |-> res]

Doc(form, activity, hasTasks, tasks) ==
    [form |-> form, activity |-> activity, hasTasks |-> hasTasks, tasks |-> tasks]

TaskLits(t) == {t.title, t.description, t.tool_params, t.instructions, t.result}
DocLits(d) == {d.activity} \cup UNION {TaskLits(d.tasks[i]) : i \in 1..Len(d.tasks)}

\* a field of type str with min_length
StrField(s, min) == s.present /\ ValLen(LitVal(s)) >= min

\* models.py Task: title and description
TaskFieldsValid(t) ==
    /\ StrField(t.title, MinTitleLen)
    /\ StrField(t.description, MinDescriptionLen)

\* models.py ToolTask: task_type Literal["tool"] with default, tool_name required
ToolTaskValid(t) ==
    /\ t.task_type \in {NoName, "tool"}
    /\ TaskFieldsValid(t)
    /\ t.tool_name # NoName

\* models.py AgentTask: agent_name required, instructions min_length 20
AgentTaskValid(t) ==
    /\ t.task_type \in {NoName, "agent"}
    /\ TaskFieldsValid(t)
    /\ t.agent_name # NoName
    /\ StrField(t.instructions, MinInstructionsLen)

\* CompletionTask: task_type "completion", result of a meaningful length
CompletionTaskValid(t) ==
    /\ t.task_type = "completion"
    /\ TaskFieldsValid(t)
    /\ StrField(t.result, MinResultLen)

\* ToolTask.normalize_paths: every backslash of a string value becomes "/"
\* faulty variant: only the first backslash is replaced
normalize_paths_once(v) ==
    Val(v.pad, [i \in 1..Len(v.chars) |->
                    IF v.chars[i] = "BSL" /\ \A j \in 1..(i - 1) : v.chars[j] # "BSL"
                    THEN "/" ELSE v.chars[i]])

normalize_paths(v) ==
    Val(v.pad, [i \in 1..Len(v.chars) |->
                    IF v.chars[i] = "BSL" THEN "/" ELSE v.chars[i]])

\* a value of the tool_params mapping: a str, or a value of another type
\* (a number, a list that holds the string val)
PValue(kind, val) == [kind |-> kind, val |-> val]
\* the field validator of tool_params on a mapping: isinstance(value, str)
\* and a backslash in it, then v[key] = value.replace(...)
validate_tool_params(m) ==
    [k \in DOMAIN m |->
        IF m[k].kind = "str" /\ \E i \in 1..Len(m[k].val.chars) : m[k].val.chars[i] = "BSL"
        THEN PValue("str", normalize_paths(m[k].val))
        ELSE m[k]]

\* the model instances; a field of another variant is NoName or NoVal
NoParams == [keys |-> {}, path |-> NoVal]
ToolTask(t) ==
    [task_type |-> "tool", title |-> LitVal(t.title),
     description |-> LitVal(t.description), owner_agent |-> "",
     tool_name |-> t.tool_name,
     tool_params |-> IF t.tool_params.present
                     THEN [keys |-> {"path"},
                           path |-> normalize_paths(LitVal(t.tool_params))]
                     ELSE NoParams,
     agent_name |-> NoName, instructions |-> NoVal, result |-> NoVal]

AgentTask(t) ==
    [task_type |-> "agent", title |-> LitVal(t.title),
     description |-> LitVal(t.description), owner_agent |-> "",
     tool_name |-> NoName, tool_params |-> NoParams,
     agent_name |-> t.agent_name, instructions |-> LitVal(t.instructions),
     result |-> NoVal]

CompletionTask(t) ==
    [task_type |-> "completion", title |-> LitVal(t.title),
     description |-> LitVal(t.description), owner_agent |-> "",
     tool_name |-> NoName, tool_params |-> NoParams,
     agent_name |-> NoName, instructions |-> NoVal,
     result |-> LitVal(t.result)]

\* List[Union[ToolTask, AgentTask, CompletionTask]]: the first variant that
\* validates (no input of the model carries the fields of two variants
\* without a task_type)
TaskValid(t) == ToolTaskValid(t) \/ AgentTaskValid(t) \/ CompletionTaskValid(t)
ParseTask(t) ==
    IF ToolTaskValid(t) THEN ToolTask(t)
    ELSE IF AgentTaskValid(t) THEN AgentTask(t)
    ELSE CompletionTask(t)

\* faulty variant: an empty task list passes
validate_tasks_any(items) == TRUE

\* TaskBreakdown.validate_tasks and min_items = 1
validate_tasks(items) == Len(items) >= 1

\* TaskBreakdown.model_validate_json on the cleaned response
ParseFail == [ok |-> FALSE, tasks |-> <<>>]
model_validate_json(d) ==
    IF d.form # "object" THEN ParseFail
    ELSE IF \E s \in DocLits(d) : ~LitOk(s) THEN ParseFail
    ELSE IF ~StrField(d.activity, MinActivityLen) THEN ParseFail
    ELSE IF ~d.hasTasks THEN ParseFail
    ELSE IF \E i \in 1..Len(d.tasks) : ~TaskValid(d.tasks[i]) THEN ParseFail
    ELSE IF ~validate_tasks(d.tasks) THEN ParseFail
    ELSE [ok |-> TRUE,
          tasks |-> [i \in 1..Len(d.tasks) |-> ParseTask(d.tasks[i])]]

(***************************************************************************)
(* The agents and their tools.                                             *)
(***************************************************************************)
\* AgentConfig.agent_objects: the subordinates an agent is built with (as in
\* main.py, where DirectoryAnalyzer is built with text_analyzer); an agent
\* is built after its subordinates, so the relation has no cycle
Agents == {"Sup", "Mid", "Sub"}
\* faulty variant: an agent is among its own subordinates
agent_objects_self(a) ==
    CASE a = "Sup" -> {"Mid"}
      [] a = "Mid" -> {"Mid", "Sub"}
      [] OTHER -> {}

agent_objects(a) ==
    CASE a = "Sup" -> {"Mid"}
      [] a = "Mid" -> {"Sub"}
      [] OTHER -> {}

\* core/tools.py ToolRegistry._register_default_tools
Registry == {"ls", "cd", "read_file", "create_file", "create_folder"}
RequiresApproval == {"create_file", "create_folder"}

\* Tool.execute: the texts a registered tool can return; a tool that
\* requires approval returns the cancellation text when the user refuses
CancelledText == "Tool execution cancelled by user"
ToolTexts(name) ==
    IF name \in RequiresApproval THEN {CancelledText, "Success", "Error"}
    ELSE IF name \in {"ls", "cd"} THEN {"Success"}
    ELSE {"Success", "Error"}

\* faulty variant: the action runs whatever the user answers
execute_unasked(name, approves, outcome) == [text |-> outcome, ran |-> TRUE]

\* Tool.execute: a tool that requires approval asks the user first and, on
\* refusal, returns the cancellation text without running _execute
execute(name, approves, outcome) ==
    IF name \in RequiresApproval /\ ~approves
    THEN [text |-> CancelledText, ran |-> FALSE]
    ELSE [text |-> outcome, ran |-> TRUE]
\* one execution of a tool as the properties see it: whether the user
\* was asked and approved, whether _execute ran, the text returned
Executed(task, approves, r) ==
    [id |-> task.id, tool |-> task.tool_name,
     asked |-> task.tool_name \in RequiresApproval,
     approved |-> task.tool_name \in RequiresApproval /\ approves,
     ran |-> r.ran, text |-> r.text]

\* Agent.execute_tool: ToolRegistry.get_tool raises ValueError for a name
\* that is not registered; evaluating `except json.JSONDecodeError' then
\* raises NameError, because the module never imports json, and that
\* NameError leaves execute_tool
execute_tool_raises(name) == name \notin Registry

(***************************************************************************)
(* Messages of an agent's history.                                         *)
(***************************************************************************)
NoDoc == Doc("none", NoLit, FALSE, <<>>)
Msg(role, kind, who, tag, ids, text, doc) ==
    [role |-> role, kind |-> kind, who |-> who, tag |-> tag, ids |-> ids,
     text |-> text, doc |-> doc]

Prompt(tag, who, text) == [tag |-> tag, who |-> who, text |-> text]
InitialPrompt == Prompt("initial", "", NoVal)
\* initial_prompt.replace('\\', '/') on the instructions of a delegation
InstructionsPrompt(task) ==
    Prompt("instructions", "", normalize_paths(task.instructions))
ToolFollowUpPrompt(tool) == Prompt("Process the results of tool", tool, NoVal)
AgentFollowUpPrompt(agent) == Prompt("Process the results of agent", agent, NoVal)
CorrectionPrompt == Prompt("Previous response could not be parsed", "", NoVal)

SystemPromptMsg == Msg("system", "system_prompt", "", "", <<>>, NoVal, NoDoc)
UserMsg(prompt) ==
    Msg("user", "prompt", prompt.who, prompt.tag, <<>>, prompt.text, NoDoc)
\* the response of the backend, named by the number of the call
AssistantMsg(call) == Msg("assistant", "response", "", "", <<call>>, NoVal, NoDoc)

Ids(tasks) == [i \in 1..Len(tasks) |-> tasks[i].id]
\* Agent.generate_response: "=== Previously Completed Tasks ==="
CompletedSummaryMsg(completed) ==
    Msg("system", "completed_summary", "", "", Ids(completed), NoVal, NoDoc)
\* Agent.process_tool_result
ToolResultMsg(tool, text) ==
    Msg("system", "tool_result", tool, text, <<>>, NoVal, NoDoc)
\* Agent.process_subordinate_agent_result
AgentResultMsg(agent, result) ==
    Msg("system", "agent_result", agent, "", <<>>, result, NoDoc)

\* faulty variant: the summary of the completed tasks follows the prompt
BeforeBackendSummaryLast(messages, completed, prompt) ==
    LET m1 == IF messages = <<>> THEN <<SystemPromptMsg>> ELSE messages
        m2 == Append(m1, UserMsg(prompt))
    IN IF completed # <<>>
       THEN Append(m2, CompletedSummaryMsg(completed)) ELSE m2

\* Agent.generate_response up to the backend call: the system prompt on an
\* empty history, the summary of the completed tasks, the prompt
BeforeBackend(messages, completed, prompt) ==
    LET m1 == IF messages = <<>> THEN <<SystemPromptMsg>> ELSE messages
        m2 == IF completed # <<>>
              THEN Append(m1, CompletedSummaryMsg(completed)) ELSE m1
    IN Append(m2, UserMsg(prompt))

(***************************************************************************)
(* The responses the model backend gives in a run of the workflow.         *)
(***************************************************************************)
GoodTitle == Lit(MinTitleLen, <<>>)
GoodDescription == Lit(MinDescriptionLen, <<>>)
GoodInstructions == Lit(MinInstructionsLen, <<>>)
GoodActivity == Lit(MinActivityLen, <<>>)
GoodResult == Lit(MinResultLen, <<>>)

ToolRaw(ty, tool, params) ==
    RawTask(ty, GoodTitle, GoodDescription, tool, params, NoName, NoLit, NoLit)
AgentRaw(ty, agent, instr) ==
    RawTask(ty, GoodTitle, GoodDescription, NoName, NoLit, agent, instr, NoLit)
CompletionRaw(res) ==
    RawTask("completion", GoodTitle, GoodDescription, NoName, NoLit, NoName,
            NoLit, res)

TaskKinds == {"create_file", "nosuch", "ask_mid", "ask_sub", "done"}
KindTask(k) ==
    CASE k = "ls" -> ToolRaw("tool", "ls", NoLit)
      [] k = "create_file" -> ToolRaw("tool", "create_file", Lit(3, <<>>))
      [] k = "nosuch" -> ToolRaw("tool", "nosuch", NoLit)
      [] k = "ask_mid" -> AgentRaw("agent", "Mid", GoodInstructions)
      [] k = "ask_sub" -> AgentRaw("agent", "Sub", GoodInstructions)
      [] k = "done" -> CompletionRaw(GoodResult)

SeqsUpTo(S, n) == UNION {[1..k -> S] : k \in 1..n}
PlanDoc(kinds) ==
    Doc("object", GoodActivity, TRUE, [i \in 1..Len(kinds) |-> KindTask(kinds[i])])

TextDoc == Doc("text", NoLit, FALSE, <<>>)
NoTasksDoc == Doc("object", GoodActivity, FALSE, <<>>)
EmptyTasksDoc == Doc("object", GoodActivity, TRUE, <<>>)
BadTypeDoc ==
    Doc("object", GoodActivity, TRUE,
        <<KindTask("ls"), ToolRaw("other", "ls", NoLit)>>)
BadDocs == {TextDoc, NoTasksDoc, EmptyTasksDoc, BadTypeDoc}

\* the responses of a run that has room for n more tasks
Responses(n) == BadDocs \cup {PlanDoc(p) : p \in SeqsUpTo(TaskKinds, n)}

(***************************************************************************)
(* AgentTaskManager: the state of an agent with its context.               *)
(***************************************************************************)
AgentState ==
    {"idle", "thinking", "responding", "executing_task", "waiting_for_agent",
     "waiting_for_approval"}
\* what kwargs.get returns: None for a missing key, or the string passed
None == "None"
KwargValues == {None, "", "name"}
Truthy(v) == v \notin {None, ""}

\* AgentTaskManager.__init__, the fields next to task_queue
NewManager ==
    [current_state |-> "idle", executing_task_name |-> None,
     waiting_for_agent_id |-> None]

\* set_state(state, **kwargs) with task_name = kwargs.get('task_name') and
\* agent_id = kwargs.get('agent_id')
set_state(m, state, task_name, agent_id) ==
    IF state = "executing_task"
    THEN [m EXCEPT !.current_state = state, !.executing_task_name = task_name]
    ELSE IF state = "waiting_for_agent"
    THEN [m EXCEPT !.current_state = state, !.waiting_for_agent_id = agent_id]
    ELSE [current_state |-> state, executing_task_name |-> None,
          waiting_for_agent_id |-> None]

\* get_state_context(): the dict it returns, as a function on its keys
get_state_context(m) ==
    [k \in {"state"}
         \cup (IF Truthy(m.executing_task_name) THEN {"task_name"} ELSE {})
         \cup (IF Truthy(m.waiting_for_agent_id) THEN {"waiting_for_agent"} ELSE {})
      |-> IF k = "state" THEN m.current_state
          ELSE IF k = "task_name" THEN m.executing_task_name
          ELSE m.waiting_for_agent_id]

(***************************************************************************)
(* State.                                                                  *)
(***************************************************************************)
VARIABLES
    stack,      \* the active Workflow.process_queue calls, outermost first
    agents,     \* Agent.state and Agent.messages of every agent
    nextId,     \* number of tasks admitted to queues so far
    calls,      \* number of Agent.generate_response calls so far
    crashed,    \* an exception has left the outermost process_queue
    heard,      \* the response the backend gave in the step just taken
    pdoc,       \* parser on its own: the response
    pout,       \* parser on its own: the outcome of model_validate_json
    pmap,       \* ToolTask on its own: the tool_params it is constructed with
    pnorm,      \* ToolTask on its own: the tool_params of the constructed task
    last,       \* TaskQueue on its own: the last call and what it returned
    manager     \* AgentTaskManager on its own: state and state context

vars == <<stack, agents, nextId, calls, crashed, heard, pdoc, pout, pmap, pnorm, last,
          manager>>

\* a task of a queue is the parsed task and the record of its admission:
\* its number, the call whose response held it, its place in that response
\* and the task types of that response
Stamp(id, batch, pos, plan) ==
    [id |-> id, batch |-> batch, pos |-> pos, plan |-> plan]
NoTask ==
    Stamp(0, 0, 0, <<>>) @@
    [task_type |-> "none", title |-> NoVal, description |-> NoVal,
     owner_agent |-> "", tool_name |-> NoName, tool_params |-> NoParams,
     agent_name |-> NoName, instructions |-> NoVal, result |-> NoVal]

NoResponse == [call |-> 0, ok |-> FALSE]
\* what a loop prints when it gives up: the raw text of a response (named by
\* its call) or only the text of the exception
NoReport == [what |-> "none", call |-> 0]
RawReport(response) == [what |-> "raw", call |-> response.call]
ErrorReport == [what |-> "error", call |-> 0]

\* Workflow.__init__ on a TaskQueue() of its own, at the head of process_queue
NewWorkflow(agent, prompt) ==
    [agent |-> agent, prompt |-> prompt,
     queue |-> <<>>, current_task |-> NoTask, completed_tasks |-> <<>>,
     retry_count |-> 0, fu_retry |-> 0, response |-> NoResponse,
     follow_up |-> InitialPrompt, task_count |-> 0, pc |-> "plan",
     \* history of the workflow, for the properties
     plan_log |-> <<>>, gen |-> 0, dispatched |-> <<>>, reported |-> NoReport,
     tool_log |-> <<>>]

Top == stack[Len(stack)]
SetTop(f) == [stack EXCEPT ![Len(stack)] = f]
Running == stack # <<>> /\ ~crashed
Budget == MaxTasks - nextId

\* faulty variant: clear() also drops the completed tasks
queue_clear_history(f) == [f EXCEPT !.queue = <<>>, !.completed_tasks = <<>>]

\* faulty variant: clear() drops nothing
queue_clear_noop(f) == f

\* deque.clear() on TaskQueue.queue
queue_clear(f) == [f EXCEPT !.queue = <<>>]
\* faulty variant: the new tasks go in front of the pending ones
add_tasks_front(f, tasks) == [f EXCEPT !.queue = tasks \o f.queue]

\* TaskQueue.add_tasks
add_tasks(f, tasks) == [f EXCEPT !.queue = f.queue \o tasks]
\* TaskQueue.add_task
add_task(f, task) == [f EXCEPT !.queue = Append(f.queue, task)]
\* faulty variant: the task is taken from the back of the queue
get_next_task_lifo(f) ==
    IF f.queue = <<>> THEN f
    ELSE [f EXCEPT !.current_task = f.queue[Len(f.queue)],
                   !.queue = SubSeq(f.queue, 1, Len(f.queue) - 1)]

\* faulty variant: the front task is read but stays in the queue
get_next_task_peek(f) ==
    IF f.queue = <<>> THEN f
    ELSE [f EXCEPT !.current_task = Head(f.queue)]

\* TaskQueue.get_next_task
get_next_task(f) ==
    IF f.queue = <<>> THEN f
    ELSE [f EXCEPT !.current_task = Head(f.queue), !.queue = Tail(f.queue)]
\* what get_next_task returns: None, or the task it made current
get_next_task_returns(f) ==
    IF f.queue = <<>> THEN NoTask ELSE get_next_task(f).current_task
\* faulty variant: the task is appended but stays current
complete_current_task_keeps(f) ==
    IF f.current_task # NoTask
    THEN [f EXCEPT !.completed_tasks = Append(f.completed_tasks, f.current_task)]
    ELSE f

\* TaskQueue.complete_current_task
complete_current_task(f) ==
    IF f.current_task # NoTask
    THEN [f EXCEPT !.completed_tasks = Append(f.completed_tasks, f.current_task),
                   !.current_task = NoTask]
    ELSE f
\* TaskQueue.has_pending_tasks
has_pending_tasks(f) == Len(f.queue) > 0

\* the tasks of the response of call number `call' as admitted by `owner'
\* (process_queue sets owner_agent, process_follow_up_response does not)
Admitted(tasks, owner, call) ==
    [i \in 1..Len(tasks) |->
        Stamp(nextId + i, call, i, [j \in 1..Len(tasks) |-> tasks[j].task_type]) @@
        [tasks[i] EXCEPT !.owner_agent = owner]]

(***************************************************************************)
(* Steps of the workflow.  Every step acts on the innermost workflow, the  *)
(* top of the stack, and runs up to the next call that takes an input      *)
(* (a response of the backend, the result of a tool).                      *)
(***************************************************************************)
SetAgent(a, st, msgs) == [agents EXCEPT ![a] = [state |-> st, messages |-> msgs]]
SetState(a, st) == [agents EXCEPT ![a].state = st]

\* faulty variant: generate_response leaves the queue as it is
GeneratingKeepsQueue(f) == [f EXCEPT !.gen = f.gen + 1]

\* Agent.generate_response up to the backend call, seen from the workflow:
\* the queue is cleared, the call is counted
Generating(f) == [queue_clear(f) EXCEPT !.gen = f.gen + 1]
Asked(f, prompt) ==
    BeforeBackend(agents[f.agent].messages, f.completed_tasks, prompt)
Answered(f, prompt) == Append(Asked(f, prompt), AssistantMsg(calls + 1))

\* faulty variant: a failed attempt is not counted
CatchUncounted(f) == [f EXCEPT !.pc = "plan"]

\* faulty variant: the retry loop runs once more
CatchOneMore(f) ==
    [f EXCEPT !.retry_count = f.retry_count + 1,
              !.pc = IF f.retry_count + 1 <= MAX_RETRIES THEN "plan" ELSE "done",
              !.reported = IF f.retry_count + 1 <= MAX_RETRIES THEN @
                           ELSE RawReport(f.response)]

\* `except Exception' of process_queue: one more retry, or give up and
\* print the error and "Raw response: {response}"
Catch(f) ==
    [f EXCEPT !.retry_count = f.retry_count + 1,
              !.pc = IF f.retry_count + 1 < MAX_RETRIES THEN "plan" ELSE "done",
              !.reported = IF f.retry_count + 1 < MAX_RETRIES THEN @
                           ELSE RawReport(f.response)]

\* faulty variant: the next task is taken whatever the current slot holds
BeginAlwaysNext(f) ==
    IF f.queue # <<>>
    THEN [get_next_task(f) EXCEPT !.task_count = f.task_count + 1]
    ELSE f

\* the head of _process_next_task: the current task, or the next one
Begin(f) ==
    IF f.current_task = NoTask
    THEN [get_next_task(f) EXCEPT !.task_count = f.task_count + 1]
    ELSE f

\* faulty variant: the draining loop ends after the first handled task
HandledEnds(f) == [complete_current_task(f) EXCEPT !.pc = "done"]

\* the end of _process_next_task and the test of the draining loop
Handled(f) ==
    LET g == complete_current_task(f)
    IN [g EXCEPT !.pc = IF has_pending_tasks(g) \/ g.current_task # NoTask
                        THEN "drain" ELSE "done"]

Dispatch(f) ==
    LET g == Begin(f)
    IN [g EXCEPT !.dispatched = Append(g.dispatched, g.current_task.id)]

\* process_queue, one round of the retry loop: the initial prompt is sent
\* and the response is parsed; its tasks are owned and enqueued
PlanRespond ==
    /\ Running /\ Top.pc = "plan" /\ calls < MaxCalls
    /\ \E d \in Responses(Budget) :
        LET f == Generating(Top)
            a == f.agent
            parsed == model_validate_json(d)
            tasks == Admitted(parsed.tasks, a, calls + 1)
            g == [f EXCEPT !.response = [call |-> calls + 1, ok |-> parsed.ok],
                           !.plan_log = Append(f.plan_log, parsed.ok)]
        IN /\ agents' = SetAgent(a, "thinking", Answered(Top, Top.prompt))
           /\ heard' = d
           /\ IF parsed.ok
              THEN /\ stack' = SetTop([add_tasks(g, tasks) EXCEPT !.pc = "drain"])
                   /\ nextId' = nextId + Len(tasks)
              ELSE /\ stack' = SetTop(Catch(g))
                   /\ UNCHANGED nextId
    /\ calls' = calls + 1
    /\ UNCHANGED <<crashed, pdoc, pout, pmap, pnorm, last, manager>>

BackendRaised == Doc("raised", NoLit, FALSE, <<>>)

\* the backend raises in the call of the initial prompt (workflow.py:41,
\* outside the try): the exception leaves this process_queue; the
\* delegator's process_queue catches it, the outermost one does not
PlanBackendError ==
    /\ Running /\ Top.pc = "plan" /\ calls < MaxCalls
    /\ LET f == [Generating(Top) EXCEPT !.pc = "raised"]
       IN /\ agents' = SetAgent(f.agent, "thinking", Asked(Top, Top.prompt))
          /\ IF Len(stack) = 1
             THEN /\ stack' = SetTop(f)
                  /\ crashed' = TRUE
             ELSE /\ stack' = [SubSeq(stack, 1, Len(stack) - 1) EXCEPT
                                 ![Len(stack) - 1] = Catch(stack[Len(stack) - 1])]
                  /\ UNCHANGED crashed
    /\ calls' = calls + 1
    /\ heard' = BackendRaised
    /\ UNCHANGED <<nextId, pdoc, pout, pmap, pnorm, last, manager>>

\* faulty variant: the task is completed only after the follow-up
ExecuteToolTaskCompletesLater ==
    /\ Running /\ Top.pc = "drain" /\ Begin(Top).current_task.task_type = "tool"
    /\ LET f == Dispatch(Top)
           a == f.agent
           task == f.current_task
       IN IF execute_tool_raises(task.tool_name)
          THEN /\ agents' = SetState(a, "executing_task")
               /\ stack' = SetTop(Catch(f))
          ELSE \E approves \in BOOLEAN :
               \E outcome \in ToolTexts(task.tool_name) \ {CancelledText} :
               LET r == execute(task.tool_name, approves, outcome)
               IN
               /\ agents' = SetAgent(a, "thinking",
                     Append(agents[a].messages, ToolResultMsg(task.tool_name, r.text)))
               /\ stack' = SetTop([f EXCEPT
                                     !.tool_log = Append(@, Executed(task, approves, r)),
                                     !.pc = "follow_up",
                                     !.follow_up = ToolFollowUpPrompt(task.tool_name)])
    /\ heard' = NoDoc
    /\ UNCHANGED <<nextId, calls, crashed, pdoc, pout, pmap, pnorm, last, manager>>

\* _execute_tool_task up to the follow-up call: the tool is executed (the
\* user is asked when the tool requires approval), its result is recorded
\* and the task is completed
ExecuteToolTask ==
    /\ Running /\ Top.pc = "drain" /\ Begin(Top).current_task.task_type = "tool"
    /\ LET f == Dispatch(Top)
           a == f.agent
           task == f.current_task
       IN IF execute_tool_raises(task.tool_name)
          THEN /\ agents' = SetState(a, "executing_task")
               /\ stack' = SetTop(Catch(f))
          ELSE \E approves \in BOOLEAN :
               \E outcome \in ToolTexts(task.tool_name) \ {CancelledText} :
               LET r == execute(task.tool_name, approves, outcome)
               IN
               /\ agents' = SetAgent(a, "thinking",
                     Append(agents[a].messages, ToolResultMsg(task.tool_name, r.text)))
               /\ stack' = SetTop([complete_current_task(f) EXCEPT
                                     !.tool_log = Append(@, Executed(task, approves, r)),
                                     !.pc = "follow_up",
                                     !.follow_up = ToolFollowUpPrompt(task.tool_name)])
    /\ heard' = NoDoc
    /\ UNCHANGED <<nextId, calls, crashed, pdoc, pout, pmap, pnorm, last, manager>>

\* faulty variant: the follow-up loop asks once more
AfterParseFailureOneMore(f) ==
    IF f.fu_retry + 1 <= MAX_RETRY_ATTEMPTS
    THEN [f EXCEPT !.fu_retry = f.fu_retry + 1, !.pc = "correction"]
    ELSE Handled([f EXCEPT !.fu_retry = f.fu_retry + 1, !.reported = ErrorReport])

\* TaskQueue.process_follow_up_response after one failed parse: a
\* correction call, or give up and print str(e) only
AfterParseFailure(f) ==
    IF f.fu_retry + 1 < MAX_RETRY_ATTEMPTS
    THEN [f EXCEPT !.fu_retry = f.fu_retry + 1, !.pc = "correction"]
    ELSE Handled([f EXCEPT !.fu_retry = f.fu_retry + 1, !.reported = ErrorReport])

\* a generation call inside the draining loop and the parse of its response:
\* the new tasks are enqueued as they are
Respond(prompt, d) ==
    LET f == [Generating(Top) EXCEPT
                !.fu_retry = IF Top.pc = "follow_up" THEN 0 ELSE @]
        a == f.agent
        parsed == model_validate_json(d)
        tasks == Admitted(parsed.tasks, "", calls + 1)
        g == IF parsed.ok THEN Handled(add_tasks(f, tasks))
             ELSE AfterParseFailure(f)
    IN /\ stack' = SetTop(g)
       /\ nextId' = nextId + Len(tasks)
       /\ agents' = SetAgent(a, IF g.pc = "correction" THEN "thinking" ELSE "idle",
                             Answered(Top, prompt))
       /\ calls' = calls + 1
       /\ heard' = d
       /\ UNCHANGED <<crashed, pdoc, pout, pmap, pnorm, last, manager>>

\* the backend raises inside the draining loop: process_queue catches it
BackendError(prompt) ==
    /\ agents' = SetAgent(Top.agent, "thinking", Asked(Top, prompt))
    /\ stack' = SetTop(Catch(Generating(Top)))
    /\ calls' = calls + 1
    /\ heard' = BackendRaised
    /\ UNCHANGED <<nextId, crashed, pdoc, pout, pmap, pnorm, last, manager>>

\* the follow-up call of a tool or delegation result and the first parse of
\* process_follow_up_response
FollowUpRespond ==
    /\ Running /\ Top.pc = "follow_up" /\ calls < MaxCalls
    /\ \E d \in Responses(Budget) : Respond(Top.follow_up, d)

FollowUpBackendError ==
    /\ Running /\ Top.pc = "follow_up" /\ calls < MaxCalls
    /\ BackendError(Top.follow_up)

\* process_follow_up_response: the correction call and the parse of its response
CorrectionRespond ==
    /\ Running /\ Top.pc = "correction" /\ calls < MaxCalls
    /\ \E d \in Responses(Budget) : Respond(CorrectionPrompt, d)

CorrectionBackendError ==
    /\ Running /\ Top.pc = "correction" /\ calls < MaxCalls
    /\ BackendError(CorrectionPrompt)

\* faulty variant: a missing subordinate is an exception
SkipUnknownAgentRaises ==
    /\ Running /\ Top.pc = "drain" /\ Begin(Top).current_task.task_type = "agent"
    /\ LET f == Dispatch(Top)
       IN /\ f.current_task.agent_name \notin agent_objects(f.agent)
          /\ stack' = SetTop(Catch(f))
          /\ agents' = SetState(f.agent, "idle")
    /\ heard' = NoDoc
    /\ UNCHANGED <<nextId, calls, crashed, pdoc, pout, pmap, pnorm, last, manager>>

\* _execute_agent_task, no subordinate of that name: the task is dropped
SkipUnknownAgent ==
    /\ Running /\ Top.pc = "drain" /\ Begin(Top).current_task.task_type = "agent"
    /\ LET f == Dispatch(Top)
       IN /\ f.current_task.agent_name \notin agent_objects(f.agent)
          /\ stack' = SetTop(Handled(f))
          /\ agents' = SetState(f.agent, "idle")
    /\ heard' = NoDoc
    /\ UNCHANGED <<nextId, calls, crashed, pdoc, pout, pmap, pnorm, last, manager>>

\* faulty variant: the delegating task is completed when the nested
\* workflow starts
StartSubordinateCompletesFirst ==
    /\ Running /\ Top.pc = "drain" /\ Begin(Top).current_task.task_type = "agent"
    /\ LET f == Dispatch(Top)
           task == f.current_task
       IN /\ task.agent_name \in agent_objects(f.agent)
          /\ stack' = Append(SetTop([complete_current_task(f) EXCEPT !.pc = "wait"]),
                             NewWorkflow(task.agent_name, InstructionsPrompt(task)))
          /\ agents' = SetState(f.agent, "waiting_for_agent")
    /\ heard' = NoDoc
    /\ UNCHANGED <<nextId, calls, crashed, pdoc, pout, pmap, pnorm, last, manager>>

\* faulty variant: the nested workflow runs on the delegator's queue
StartSubordinateOnSameQueue ==
    /\ Running /\ Top.pc = "drain" /\ Begin(Top).current_task.task_type = "agent"
    /\ LET f == Dispatch(Top)
           task == f.current_task
       IN /\ task.agent_name \in agent_objects(f.agent)
          /\ stack' = Append(SetTop([f EXCEPT !.pc = "wait"]),
                             [NewWorkflow(task.agent_name, InstructionsPrompt(task))
                                 EXCEPT !.queue = f.queue,
                                        !.completed_tasks = f.completed_tasks])
          /\ agents' = SetState(f.agent, "waiting_for_agent")
    /\ heard' = NoDoc
    /\ UNCHANGED <<nextId, calls, crashed, pdoc, pout, pmap, pnorm, last, manager>>

\* faulty variant: the delegator keeps the state it had
StartSubordinateKeepsState ==
    /\ Running /\ Top.pc = "drain" /\ Begin(Top).current_task.task_type = "agent"
    /\ LET f == Dispatch(Top)
           task == f.current_task
       IN /\ task.agent_name \in agent_objects(f.agent)
          /\ stack' = Append(SetTop([f EXCEPT !.pc = "wait"]),
                             NewWorkflow(task.agent_name, InstructionsPrompt(task)))
          /\ UNCHANGED agents
    /\ heard' = NoDoc
    /\ UNCHANGED <<nextId, calls, crashed, pdoc, pout, pmap, pnorm, last, manager>>

\* _execute_agent_task: a workflow of the subordinate on a queue of its own
StartSubordinate ==
    /\ Running /\ Top.pc = "drain" /\ Begin(Top).current_task.task_type = "agent"
    /\ LET f == Dispatch(Top)
           task == f.current_task
       IN /\ task.agent_name \in agent_objects(f.agent)
          /\ stack' = Append(SetTop([f EXCEPT !.pc = "wait"]),
                             NewWorkflow(task.agent_name, InstructionsPrompt(task)))
          /\ agents' = SetState(f.agent, "waiting_for_agent")
    /\ heard' = NoDoc
    /\ UNCHANGED <<nextId, calls, crashed, pdoc, pout, pmap, pnorm, last, manager>>

\* process_queue is declared `-> None' and has no return statement: the
\* caller gets no value, neither a final result nor the completed history
process_queue_returns(f) ==
    [value |-> "None", final_result |-> NoVal, completed_tasks |-> <<>>]

\* faulty variant: the result is read from the first completed task
final_result_first(completed) ==
    IF completed # <<>> /\ completed[1].task_type = "completion"
    THEN completed[1].result ELSE NoVal

\* faulty variant: the result of the subordinate is never found
final_result_missing(completed) == NoVal

\* hasattr(task, 'result'): only a completion task has the field
final_result(completed) ==
    IF completed # <<>> /\ completed[Len(completed)].task_type = "completion"
    THEN completed[Len(completed)].result ELSE NoVal

\* _execute_agent_task after subordinate_workflow.process_queue returned
SubordinateReturn ==
    /\ Running /\ Len(stack) > 1 /\ Top.pc = "done"
    /\ LET sub == Top
           f == stack[Len(stack) - 1]
           a == f.agent
           task == f.current_task
           result == final_result(sub.completed_tasks)
           rest == SubSeq(stack, 1, Len(stack) - 1)
       IN IF ValLen(result) > 0
          THEN /\ agents' = SetAgent(a, "thinking",
                     Append(agents[a].messages, AgentResultMsg(task.agent_name, result)))
               /\ stack' = [rest EXCEPT ![Len(rest)] =
                               [complete_current_task(f) EXCEPT
                                   !.pc = "follow_up",
                                   !.follow_up = AgentFollowUpPrompt(task.agent_name)]]
          ELSE /\ agents' = SetState(a, "idle")
               /\ stack' = [rest EXCEPT ![Len(rest)] = Handled(f)]
    /\ heard' = NoDoc
    /\ UNCHANGED <<nextId, calls, crashed, pdoc, pout, pmap, pnorm, last, manager>>

\* _process_next_task on a completion task: the rest of the plan is dropped
CompleteWorkflow ==
    /\ Running /\ Top.pc = "drain"
    /\ Begin(Top).current_task.task_type = "completion"
    /\ LET f == Dispatch(Top)
       IN /\ stack' = SetTop(Handled(queue_clear(f)))
          /\ agents' = SetState(f.agent, "idle")
    /\ heard' = NoDoc
    /\ UNCHANGED <<nextId, calls, crashed, pdoc, pout, pmap, pnorm, last, manager>>

(***************************************************************************)
(* The workflow started by main.py on the outermost agent.                 *)
(***************************************************************************)
NotParsed == [done |-> FALSE, ok |-> FALSE, tasks |-> <<>>]
\* no ToolTask constructed, no call of the queue made
NotBuilt == [done |-> FALSE, params |-> <<>>]
NoCall == [op |-> "none", result |-> NoTask, prev |-> "none"]

Init ==
    /\ stack = <<NewWorkflow("Sup", InitialPrompt)>>
    /\ agents = [a \in Agents |-> [state |-> "idle", messages |-> <<>>]]
    /\ nextId = 0
    /\ calls = 0
    /\ crashed = FALSE
    /\ heard = NoDoc
    /\ manager = NewManager
    /\ pdoc = NoDoc
    /\ pout = NotParsed
    /\ pmap = <<>>
    /\ pnorm = NotBuilt
    /\ last = NoCall

Next ==
    \/ PlanRespond
    \/ PlanBackendError
    \/ ExecuteToolTask
    \/ FollowUpRespond
    \/ FollowUpBackendError
    \/ CorrectionRespond
    \/ CorrectionBackendError
    \/ SkipUnknownAgent
    \/ StartSubordinate
    \/ SubordinateReturn
    \/ CompleteWorkflow

Spec == Init /\ [][Next]_vars

(***************************************************************************)
(* The parser on its own: TaskBreakdown.model_validate_json applied to the *)
(* responses of a bounded set, valid and invalid ones.                     *)
(***************************************************************************)
TokSeqs == {<<>>} \cup SeqsUpTo(RawTok, MaxToks)
\* the literals around the minimum length m of a field, and the missing field
Lits(m) == {NoLit} \cup {Lit(n, toks) : n \in {m - 1, m}, toks \in TokSeqs}

\* task objects that differ from a valid one in one field
ToolVariants ==
    {RawTask(ty, GoodTitle, GoodDescription, tool, NoLit, NoName, NoLit, NoLit) :
        ty \in {"tool", NoName, "other", "agent"}, tool \in {"ls", "", NoName}}
    \cup {RawTask("tool", ti, GoodDescription, "ls", NoLit, NoName, NoLit, NoLit) :
            ti \in Lits(MinTitleLen)}
    \cup {RawTask("tool", GoodTitle, de, "ls", NoLit, NoName, NoLit, NoLit) :
            de \in Lits(MinDescriptionLen)}
    \cup {RawTask("tool", GoodTitle, GoodDescription, "ls", pa, NoName, NoLit, NoLit) :
            pa \in Lits(1)}
AgentVariants ==
    {RawTask(ty, GoodTitle, GoodDescription, NoName, NoLit, ag, GoodInstructions, NoLit) :
        ty \in {"agent", NoName, "other", "completion"}, ag \in {"Sub", NoName}}
    \cup {RawTask("agent", GoodTitle, GoodDescription, NoName, NoLit, "Sub", ins, NoLit) :
            ins \in Lits(MinInstructionsLen)}
CompletionVariants ==
    {RawTask(ty, GoodTitle, GoodDescription, NoName, NoLit, NoName, NoLit, res) :
        ty \in {"completion", NoName, "other"}, res \in Lits(MinResultLen)}
TaskVariants == ToolVariants \cup AgentVariants \cup CompletionVariants
BaseTasks == {KindTask(k) : k \in TaskKinds} \cup {ToolRaw("other", "ls", NoLit)}

ParserDocs ==
    {TextDoc, NoTasksDoc, EmptyTasksDoc}
    \cup {Doc("object", act, TRUE, <<KindTask("done")>>) : act \in Lits(MinActivityLen)}
    \cup {Doc("object", GoodActivity, TRUE, ts) : ts \in SeqsUpTo(BaseTasks, MaxDocTasks)}
    \cup {Doc("object", GoodActivity, TRUE, <<t>>) : t \in TaskVariants}
    \cup {Doc("object", GoodActivity, TRUE, <<KindTask("create_file"), t>>) :
            t \in TaskVariants}

ParserInit ==
    /\ pdoc \in ParserDocs
    /\ pout = NotParsed
    /\ pmap = <<>>
    /\ pnorm = NotBuilt
    /\ last = NoCall
    /\ stack = <<>>
    /\ agents = [a \in Agents |-> [state |-> "idle", messages |-> <<>>]]
    /\ nextId = 0
    /\ calls = 0
    /\ crashed = FALSE
    /\ heard = NoDoc
    /\ manager = NewManager

\* cleaned_response = response.encode('utf-8').decode('unicode-escape');
\* TaskBreakdown.model_validate_json(cleaned_response)
Validate ==
    /\ ~pout.done
    /\ pout' = [done |-> TRUE] @@ model_validate_json(pdoc)
    /\ UNCHANGED <<pdoc, stack, agents, nextId, calls, crashed, heard, pmap, pnorm,
                   last, manager>>

ParserNext == Validate

ParserSpec == ParserInit /\ [][ParserNext]_vars

(***************************************************************************)
(* ToolTask on its own: a task is constructed with a tool_params mapping   *)
(* of a bounded set, with string values and values of other types.         *)
(***************************************************************************)
ParamChars == {"c", "BSL", "/"}
ParamKeys == {"path", "depth"}
ParamValues ==
    {PValue("str", Val(n, cs)) :
        n \in {0, 1}, cs \in {<<>>} \cup SeqsUpTo(ParamChars, MaxChars)}
    \cup {PValue("int", NoVal), PValue("list", Val(0, <<"BSL">>))}
ParamMaps == UNION {[K -> ParamValues] : K \in SUBSET ParamKeys}

ParamsInit ==
    /\ pmap \in ParamMaps
    /\ pnorm = NotBuilt
    /\ pdoc = NoDoc
    /\ pout = NotParsed
    /\ last = NoCall
    /\ stack = <<>>
    /\ agents = [a \in Agents |-> [state |-> "idle", messages |-> <<>>]]
    /\ nextId = 0
    /\ calls = 0
    /\ crashed = FALSE
    /\ heard = NoDoc
    /\ manager = NewManager

\* ToolTask(tool_params = pmap): the field validator runs on the mapping
Construct ==
    /\ ~pnorm.done
    /\ pnorm' = [done |-> TRUE, params |-> validate_tool_params(pmap)]
    /\ UNCHANGED <<pmap, pdoc, pout, last, stack, agents, nextId, calls, crashed,
                   heard, manager>>

ParamsNext == Construct

ParamsSpec == ParamsInit /\ [][ParamsNext]_vars

(***************************************************************************)
(* TaskQueue on its own: one queue driven by calls of add_tasks, add_task, *)
(* get_next_task and complete_current_task in any order.                   *)
(***************************************************************************)
QueueKinds == {"create_file", "ask_sub"}
QueueTasks(kinds) == [i \in 1..Len(kinds) |-> ParseTask(KindTask(kinds[i]))]
Called(op, result) == [op |-> op, result |-> result, prev |-> last.op]

QueueInit ==
    /\ stack = <<[NewWorkflow("Sup", InitialPrompt) EXCEPT !.pc = "queue"]>>
    /\ last = NoCall
    /\ nextId = 0
    /\ pmap = <<>>
    /\ pnorm = NotBuilt
    /\ pdoc = NoDoc
    /\ pout = NotParsed
    /\ agents = [a \in Agents |-> [state |-> "idle", messages |-> <<>>]]
    /\ calls = 0
    /\ crashed = FALSE
    /\ heard = NoDoc
    /\ manager = NewManager

QueueUnchanged ==
    UNCHANGED <<pmap, pnorm, pdoc, pout, agents, calls, crashed, heard, manager>>

\* queue.add_tasks(tasks) with a list of tasks
AddTasks ==
    /\ nextId < MaxQueued
    /\ \E kinds \in SeqsUpTo(QueueKinds, MaxQueued - nextId) :
          /\ stack' = SetTop(add_tasks(Top, Admitted(QueueTasks(kinds), "", nextId + 1)))
          /\ nextId' = nextId + Len(kinds)
    /\ last' = Called("add_tasks", NoTask)
    /\ QueueUnchanged

\* queue.add_task(task)
AddTask ==
    /\ nextId < MaxQueued
    /\ \E k \in QueueKinds :
          stack' = SetTop(add_task(Top, Admitted(QueueTasks(<<k>>), "", nextId + 1)[1]))
    /\ nextId' = nextId + 1
    /\ last' = Called("add_task", NoTask)
    /\ QueueUnchanged

\* queue.get_next_task(); the tasks it returned are logged in `dispatched'
GetNextTask ==
    /\ LET task == get_next_task_returns(Top)
           g == get_next_task(Top)
       IN /\ stack' = SetTop(IF task = NoTask THEN g
                             ELSE [g EXCEPT !.dispatched = Append(@, task.id)])
          /\ last' = Called("get_next_task", task)
    /\ UNCHANGED nextId
    /\ QueueUnchanged

\* queue.complete_current_task()
CompleteCurrentTask ==
    /\ stack' = SetTop(complete_current_task(Top))
    /\ last' = Called("complete_current_task", NoTask)
    /\ UNCHANGED nextId
    /\ QueueUnchanged

QueueNext == AddTasks \/ AddTask \/ GetNextTask \/ CompleteCurrentTask

QueueSpec == QueueInit /\ [][QueueNext]_vars

(***************************************************************************)
(* AgentTaskManager on its own: its methods are called in any order; its   *)
(* task_queue is the one workflow record of the stack.                     *)
(***************************************************************************)
\* AgentTaskManager(): a fresh TaskQueue, state IDLE and no context
ManagerInit == QueueInit

ManagerUnchanged ==
    UNCHANGED <<pmap, pnorm, pdoc, pout, agents, calls, crashed, heard>>

\* manager.set_state(state, **kwargs)
ManagerSetState ==
    /\ \E state \in AgentState : \E task_name \in KwargValues :
       \E agent_id \in KwargValues :
          manager' = set_state(manager, state, task_name, agent_id)
    /\ last' = Called("set_state", NoTask)
    /\ UNCHANGED <<stack, nextId>>
    /\ ManagerUnchanged

\* manager.add_task(task)
ManagerAddTask ==
    /\ nextId < MaxQueued
    /\ \E k \in QueueKinds :
          stack' = SetTop(add_task(Top, Admitted(QueueTasks(<<k>>), "", nextId + 1)[1]))
    /\ nextId' = nextId + 1
    /\ last' = Called("add_task", NoTask)
    /\ UNCHANGED manager
    /\ ManagerUnchanged

\* manager.get_next_task()
ManagerGetNextTask ==
    /\ stack' = SetTop(get_next_task(Top))
    /\ last' = Called("get_next_task", get_next_task_returns(Top))
    /\ UNCHANGED <<nextId, manager>>
    /\ ManagerUnchanged

\* manager.complete_current_task(): the queue completes its current task,
\* then the state is set to IDLE if the queue has no pending task
ManagerCompleteCurrentTask ==
    /\ LET q == complete_current_task(Top)
       IN /\ stack' = SetTop(q)
          /\ manager' = IF ~has_pending_tasks(q)
                         THEN set_state(manager, "idle", None, None)
                         ELSE manager
    /\ last' = Called("complete_current_task", NoTask)
    /\ UNCHANGED nextId
    /\ ManagerUnchanged

\* manager.clear_queue(): a new TaskQueue, the state as it was
ManagerClearQueue ==
    /\ stack' = <<[NewWorkflow("Sup", InitialPrompt) EXCEPT !.pc = "queue"]>>
    /\ last' = Called("clear_queue", NoTask)
    /\ UNCHANGED <<nextId, manager>>
    /\ ManagerUnchanged

ManagerNext ==
    \/ ManagerSetState
    \/ ManagerAddTask
    \/ ManagerGetNextTask
    \/ ManagerCompleteCurrentTask
    \/ ManagerClearQueue

ManagerSpec == ManagerInit /\ [][ManagerNext]_vars

(***************************************************************************)
(* Properties of the retry loop of process_queue.                          *)
(***************************************************************************)
\* the workflows that are running or have just ended
Frames == {stack[i] : i \in 1..Len(stack)}

\* C1: a workflow whose first three responses to the initial prompt could
\* not be parsed has made exactly three generation calls and has ended in
\* the failure outcome (retry budget used up); it makes no fourth call, its
\* queue never received a task and it never dispatched one.
C1_ThreeUnparseablePlansGiveUp ==
    \A f \in Frames :
        (Len(f.plan_log) >= 3 /\ \A k \in 1..3 : ~f.plan_log[k]) =>
            /\ Len(f.plan_log) = 3
            /\ f.gen = 3
            /\ f.pc = "done"
            /\ f.retry_count = 3
            /\ f.queue = <<>>
            /\ f.current_task = NoTask
            /\ f.completed_tasks = <<>>
            /\ f.dispatched = <<>>

C1_ThreeFailuresSeen ==
    \E f \in Frames : f.plan_log = <<FALSE, FALSE, FALSE>> /\ f.gen = 3

\* C2: a workflow whose first two responses to the initial prompt were
\* malformed and whose third was a valid breakdown succeeds: the planning
\* step stays at three generation calls and two counted failures, and when
\* the workflow has ended the tasks of the third response are drained.
C2_ThirdPlanSucceeds ==
    \A f \in Frames :
        (Len(f.plan_log) >= 3 /\ ~f.plan_log[1] /\ ~f.plan_log[2] /\ f.plan_log[3]) =>
            /\ Len(f.plan_log) = 3
            /\ f.retry_count = 2
            /\ f.pc = "done" => (f.queue = <<>> /\ f.current_task = NoTask)


(***************************************************************************)
(* Properties of the draining loop.                                        *)
(***************************************************************************)
\* the task _process_next_task works on next, and the tasks pending behind it
NextUp(f) ==
    IF f.current_task # NoTask THEN f.current_task
    ELSE IF f.queue # <<>> THEN f.queue[1] ELSE NoTask
Behind(f) ==
    IF f.current_task # NoTask \/ f.queue = <<>> THEN f.queue
    ELSE [k \in 1..(Len(f.queue) - 1) |-> f.queue[k + 1]]
TaskSet(tasks) == {tasks[k] : k \in 1..Len(tasks)}
\* task u is the task that follows task t in the response that held both
Follows(u, t) == u.batch = t.batch /\ u.pos = t.pos + 1
\* the workflow returned from its draining loop without an exception
Drained(f) == f.pc = "done" /\ f.retry_count < 3 /\ f.current_task = NoTask

\* C3 as stated: once A, the first task of a plan [A, B, C] without a
\* completion task, is in completed and the workflow has drained its queue,
\* B and C follow A in completed.
C3_AllThreeCompleted ==
    \A f \in Frames :
        Drained(f) =>
            \A j \in 1..Len(f.completed_tasks) :
                LET A == f.completed_tasks[j]
                IN (A.pos = 1 /\ Len(A.plan) = 3 /\ \A k \in 1..3 : A.plan[k] # "completion") =>
                      /\ Len(f.completed_tasks) >= j + 2
                      /\ Follows(f.completed_tasks[j + 1], A)
                      /\ Follows(f.completed_tasks[j + 2], f.completed_tasks[j + 1])

\* the order of a plan is kept: completed holds, response by response, the
\* first tasks of the response in their order, and the queue holds the last
\* tasks of one response in their order
C3_OrderKept ==
    \A f \in Frames :
        /\ \A j \in 1..Len(f.completed_tasks) :
              LET t == f.completed_tasks[j]
              IN IF j > 1 /\ f.completed_tasks[j - 1].batch = t.batch
                 THEN Follows(t, f.completed_tasks[j - 1])
                 ELSE /\ t.pos = 1
                      /\ j > 1 => f.completed_tasks[j - 1].batch < t.batch
        /\ \A k \in 2..Len(f.queue) : Follows(f.queue[k], f.queue[k - 1])
        /\ f.queue # <<>> =>
              f.queue[Len(f.queue)].pos = Len(f.queue[Len(f.queue)].plan)
        /\ f.current_task # NoTask =>
              /\ f.completed_tasks # <<>> =>
                    LET l == f.completed_tasks[Len(f.completed_tasks)]
                    IN IF l.batch = f.current_task.batch
                       THEN Follows(f.current_task, l)
                       ELSE l.batch < f.current_task.batch /\ f.current_task.pos = 1
              /\ f.completed_tasks = <<>> => f.current_task.pos = 1

\* tasks are dispatched from the front, and a pending task leaves the queue
\* only by being dispatched, by a generation call on the queue or by the
\* dispatch of a completion task
C3_DroppedOnlyByGeneration ==
    \A i \in 1..Len(stack) :
        i <= Len(stack') =>
            LET f == stack[i]
                g == stack'[i]
            IN /\ g.dispatched # f.dispatched =>
                     g.dispatched = Append(f.dispatched, NextUp(f).id)
               /\ (g.gen = f.gen /\ ~(g.dispatched # f.dispatched
                                       /\ NextUp(f).task_type = "completion")) =>
                     TaskSet(f.queue) \subseteq
                        (TaskSet(g.queue) \cup {g.current_task}
                            \cup TaskSet(g.completed_tasks))

\* C3: the tasks [A, B, C] of a plan are dispatched from the front of the
\* queue and reach completed in the order A, B, C only as far as the plan
\* survives: every generation call on the queue first discards the tasks
\* still pending, so completed holds a prefix of A, B, C in order.
C3_PlanOrderUntilNextGeneration ==
    []C3_OrderKept /\ [][C3_DroppedOnlyByGeneration]_vars

\* all three tasks of a plan were completed in order
C3_ThreeInOrder ==
    \E f \in Frames :
        /\ Drained(f) /\ Len(f.completed_tasks) = 3
        /\ Len(f.completed_tasks[1].plan) = 3
        /\ \A k \in 1..3 : f.completed_tasks[k].batch = f.completed_tasks[1].batch
                            /\ f.completed_tasks[k].pos = k
                            /\ f.completed_tasks[k].task_type # "completion"


\* the task types of a response [ToolTask, CompletionTask, ToolTask]
ToolCompletionTool == <<"tool", "completion", "tool">>

\* C4 as stated: a workflow that has executed the first tool task of a plan
\* [ToolTask, CompletionTask, ToolTask] and has drained its queue ends with
\* the completion task of that plan right after the tool task in completed.
C4_ToolThenCompletion ==
    \A f \in Frames :
        Drained(f) =>
            \A j \in 1..Len(f.completed_tasks) :
                LET t == f.completed_tasks[j]
                IN (t.plan = ToolCompletionTool /\ t.pos = 1) =>
                      /\ Len(f.completed_tasks) = j + 1
                      /\ Follows(f.completed_tasks[j + 1], t)
                      /\ f.completed_tasks[j + 1].task_type = "completion"

\* C4: of a plan [ToolTask, CompletionTask, ToolTask] only the first tool
\* task is ever dispatched; once it is completed the follow-up generation
\* call is pending or has emptied the queue of that plan, so the completion
\* task and the trailing tool task are never dispatched, executed or
\* completed.
C4_OnlyFirstToolTaskRuns ==
    \A f \in Frames :
        /\ \A t \in TaskSet(f.completed_tasks) \cup {f.current_task} :
              t.plan = ToolCompletionTool => t.pos = 1 /\ t.task_type = "tool"
        /\ \A t \in TaskSet(f.queue) :
              t.plan = ToolCompletionTool =>
                 /\ t.id \notin TaskSet(f.dispatched)
                 /\ \A u \in TaskSet(f.completed_tasks) :
                       (u.plan = ToolCompletionTool /\ u.batch = t.batch) =>
                          f.pc = "follow_up"

\* the tool task of such a plan was executed and its follow-up call made
C4_RestDiscarded ==
    \E f \in Frames :
        /\ Len(f.completed_tasks) = 1
        /\ f.completed_tasks[1].plan = ToolCompletionTool
        /\ f.dispatched = <<f.completed_tasks[1].id>>
        /\ f.gen = 2
        /\ f.queue = <<>>


\* the innermost workflow is about to dispatch a task of the given type
Dispatching(type) ==
    Running /\ Top.pc = "drain" /\ NextUp(Top).task_type = type
\* the innermost workflow after a step that left the stack as deep as it was
TopAfter == stack'[Len(stack)]

\* C5: the dispatch of a completion task discards every task still pending
\* in the queue, appends the completion task to completed and ends the
\* workflow; an ended workflow dequeues and executes nothing and makes no
\* generation call for as long as it exists.
C5_CompletionStep ==
    /\ Dispatching("completion") =>
          /\ Len(stack') = Len(stack)
          /\ TopAfter.pc = "done"
          /\ TopAfter.queue = <<>>
          /\ TopAfter.current_task = NoTask
          /\ TopAfter.completed_tasks = Append(Top.completed_tasks, NextUp(Top))
          /\ TopAfter.dispatched = Append(Top.dispatched, NextUp(Top).id)
          /\ TopAfter.gen = Top.gen
          /\ calls' = calls
    /\ \A i \in 1..Len(stack) :
          (stack[i].pc = "done" /\ i <= Len(stack')) => stack'[i] = stack[i]
\* C5: every step dispatches a completion task, and leaves an ended workflow,
\* as described above
C5_CompletionEndsWorkflow == [][C5_CompletionStep]_vars

\* a completion task ended a workflow and the tasks behind it were dropped
C5_CompletionDroppedRest ==
    \E f \in Frames :
        /\ f.pc = "done" /\ f.queue = <<>> /\ f.completed_tasks # <<>>
        /\ LET c == f.completed_tasks[Len(f.completed_tasks)]
           IN c.task_type = "completion" /\ c.pos < Len(c.plan)

(***************************************************************************)
(* Properties of delegation and of tool execution.                         *)
(***************************************************************************)
\* the workflow that waits for the innermost one
Delegator == stack[Len(stack) - 1]
\* the subordinate's workflow ended in exactly one completion task
OneCompletion(f) ==
    /\ f.pc = "done" /\ Len(f.completed_tasks) = 1
    /\ f.completed_tasks[1].task_type = "completion"
IsResultNote(m, agent, X) ==
    m.role = "system" /\ m.kind = "agent_result" /\ m.who = agent /\ m.text = X

\* C6: when the workflow of a known subordinate ends in exactly one
\* completion task with result X, the delegator gets X as a
\* subordinate-result note at the end of its history, the delegating task
\* is appended to the delegator's completed list and the delegator stands
\* before the follow-up call for that subordinate; the step after is that
\* generation call, made by the delegator on its own queue with the note
\* still in its history.
C6_DelegationStep ==
    /\ (Running /\ Len(stack) > 1 /\ OneCompletion(Top)) =>
          LET f == Delegator
              a == f.agent
              X == Top.completed_tasks[1].result
          IN /\ Len(stack') = Len(stack) - 1
             /\ LET g == stack'[Len(stack')]
                IN /\ Len(agents'[a].messages) = Len(agents[a].messages) + 1
                   /\ SubSeq(agents'[a].messages, 1, Len(agents[a].messages))
                         = agents[a].messages
                   /\ IsResultNote(agents'[a].messages[Len(agents'[a].messages)],
                                   f.current_task.agent_name, X)
                   /\ g.completed_tasks = Append(f.completed_tasks, f.current_task)
                   /\ g.current_task = NoTask
                   /\ g.queue = f.queue
                   /\ g.pc = "follow_up"
                   /\ g.follow_up.tag = "Process the results of agent"
                   /\ g.follow_up.who = f.current_task.agent_name
                   /\ g.gen = f.gen
             /\ calls' = calls
    /\ (Running /\ Top.pc = "follow_up") =>
          LET a == Top.agent
          IN /\ Len(stack') = Len(stack)
             /\ calls' = calls + 1
             /\ TopAfter.gen = Top.gen + 1
             /\ TopAfter.agent = a
             /\ SubSeq(agents'[a].messages, 1, Len(agents[a].messages))
                   = agents[a].messages
             /\ \E k \in (Len(agents[a].messages) + 1)..Len(agents'[a].messages) :
                   LET m == agents'[a].messages[k]
                   IN m.role = "user" /\ m.tag = Top.follow_up.tag
                                      /\ m.who = Top.follow_up.who
\* C6: every step returns from a subordinate, and makes the follow-up call,
\* as described above
C6_DelegationRoundTrip == [][C6_DelegationStep]_vars

\* the follow-up call of a delegation was made with the note in the history
C6_FollowUpAfterNote ==
    \E f \in Frames :
        \E j \in 1..Len(f.completed_tasks) :
            /\ f.completed_tasks[j].task_type = "agent"
            /\ \E k \in 1..Len(agents[f.agent].messages) :
                  \E n \in (k + 1)..Len(agents[f.agent].messages) :
                      /\ IsResultNote(agents[f.agent].messages[k],
                                      f.completed_tasks[j].agent_name,
                                      Val(MinResultLen, <<>>))
                      /\ agents[f.agent].messages[n].role = "user"
                      /\ agents[f.agent].messages[n].tag = "Process the results of agent"

\* C7: an agent task that names no subordinate of the delegating agent is
\* skipped: no exception (no retry counted, no crash), no nested workflow,
\* no generation call; the task is completed and the workflow goes on with
\* the tasks still pending, or ends when there are none.
C7_SkipStep ==
    (Dispatching("agent") /\ NextUp(Top).agent_name \notin agent_objects(Top.agent)) =>
        /\ Len(stack') = Len(stack)
        /\ ~crashed'
        /\ calls' = calls
        /\ TopAfter.gen = Top.gen
        /\ TopAfter.retry_count = Top.retry_count
        /\ TopAfter.queue = Behind(Top)
        /\ TopAfter.current_task = NoTask
        /\ TopAfter.completed_tasks = Append(Top.completed_tasks, NextUp(Top))
        /\ TopAfter.pc = IF Behind(Top) # <<>> THEN "drain" ELSE "done"
        /\ agents'[Top.agent].messages = agents[Top.agent].messages
\* C7: every step skips an agent task without a subordinate as described above
C7_UnknownSubordinateSkipped == [][C7_SkipStep]_vars

\* a task was dispatched after a skipped agent task of the same plan
C7_WentOnAfterSkip ==
    \E f \in Frames :
        /\ Len(f.dispatched) >= 2 /\ f.completed_tasks # <<>>
        /\ LET t == f.completed_tasks[1]
           IN /\ t.task_type = "agent"
              /\ t.agent_name \notin agent_objects(f.agent)
              /\ f.dispatched[1] = t.id
              /\ f.dispatched[2] = t.id + 1
              /\ t.pos < Len(t.plan)

\* C8 as stated: the dispatch of a tool task, whatever tool it names, raises
\* nothing: no retry is counted, the result text is recorded in the agent's
\* history, the task is completed and the follow-up call is next.
C8_ToolStep ==
    Dispatching("tool") =>
        /\ Len(stack') = Len(stack)
        /\ TopAfter.retry_count = Top.retry_count
        /\ TopAfter.completed_tasks = Append(Top.completed_tasks, NextUp(Top))
        /\ TopAfter.current_task = NoTask
        /\ TopAfter.pc = "follow_up"
        /\ Len(agents'[Top.agent].messages) = Len(agents[Top.agent].messages) + 1
        /\ agents'[Top.agent].messages[Len(agents'[Top.agent].messages)].kind
              = "tool_result"
\* C8 as stated: every dispatch of a tool task is such a step
C8_ToolErrorIsData == [][C8_ToolStep]_vars


(***************************************************************************)
(* Properties of the parser.                                               *)
(***************************************************************************)
TaskTypes == {"tool", "agent", "completion"}
\* what the JSON literal denotes, character by character (RFC 8259)
RECURSIVE Denotes(_)
Denotes(toks) ==
    IF toks = <<>> THEN <<>>
    ELSE LET t == Head(toks)
             ch == CASE t = "c" -> "c"
                     [] t = "b" -> "b"
                     [] t = "esc_bs" -> "BSL"
                     [] t = "esc_nl" -> "LF"
                     [] t = "esc_qt" -> "QT"
                     [] t = "u8" -> "E9"
         IN <<ch>> \o Denotes(Tail(toks))
\* a string field of the JSON text as JSON reads it, with its minimum length
Has(s, min) == s.present /\ s.pad + Len(Denotes(s.toks)) >= min
\* a task object that carries the required fields of its variant
Carries(t) ==
    /\ Has(t.title, MinTitleLen)
    /\ Has(t.description, MinDescriptionLen)
    /\ t.task_type = "tool" => t.tool_name # NoName
    /\ t.task_type = "agent" =>
          (t.agent_name # NoName /\ Has(t.instructions, MinInstructionsLen))
    /\ t.task_type = "completion" => Has(t.result, MinResultLen)
\* a JSON object with an activity and a list of n >= 1 tasks of the schema
SchemaValid(d) ==
    /\ d.form = "object"
    /\ Has(d.activity, MinActivityLen)
    /\ d.hasTasks /\ Len(d.tasks) >= 1
    /\ \A i \in 1..Len(d.tasks) :
          d.tasks[i].task_type \in TaskTypes /\ Carries(d.tasks[i])

\* C9 as stated: every response that is a valid breakdown of n >= 1 tasks is
\* parsed to exactly n tasks in the same order with the same task_type tags.
C9_ValidBreakdownParses ==
    (pout.done /\ SchemaValid(pdoc)) =>
        /\ pout.ok
        /\ Len(pout.tasks) = Len(pdoc.tasks)
        /\ \A i \in 1..Len(pdoc.tasks) :
              pout.tasks[i].task_type = pdoc.tasks[i].task_type

\* the response lacks the tasks field, has an empty tasks list or holds a
\* task whose task_type is outside the closed set
SchemaBroken(d) ==
    /\ d.form = "object"
    /\ \/ ~d.hasTasks
       \/ d.tasks = <<>>
       \/ \E i \in 1..Len(d.tasks) : d.tasks[i].task_type \notin TaskTypes \cup {NoName}

\* C10: a step that hears a response without the tasks field, with an empty
\* tasks list or with a task of a type outside the closed set counts one
\* parse failure (of the planning loop or of the follow-up loop) and admits
\* no task: the queue is empty after it and no task number is given out.
C10_RejectStep ==
    SchemaBroken(heard') =>
        /\ Len(stack') = Len(stack)
        /\ nextId' = nextId
        /\ TopAfter.queue = <<>>
        /\ TopAfter.completed_tasks = Top.completed_tasks
        /\ Top.pc = "plan" =>
              /\ TopAfter.retry_count = Top.retry_count + 1
              /\ TopAfter.plan_log = Append(Top.plan_log, FALSE)
        /\ Top.pc = "follow_up" => TopAfter.fu_retry = 1
        /\ Top.pc = "correction" => TopAfter.fu_retry = Top.fu_retry + 1
        /\ Top.pc \in {"plan", "follow_up", "correction"}
\* C10: every step that hears such a response rejects it as described above
C10_InvalidResponseRejected == [][C10_RejectStep]_vars

\* a response with a valid task and a task of an unknown type was heard and
\* counted as a failure
C10_MixedBatchRejected ==
    /\ stack # <<>> /\ heard.form = "object" /\ Len(heard.tasks) = 2
    /\ heard.tasks[1].task_type = "tool"
    /\ heard.tasks[2].task_type \notin TaskTypes
    /\ Top.retry_count + Top.fu_retry >= 1
    /\ Top.queue = <<>>


(***************************************************************************)
(* Properties of ToolTask.normalize_paths.                                 *)
(***************************************************************************)
\* C11: the tool_params of a constructed ToolTask have the keys they were
\* given; a string value has every backslash replaced by a forward slash
\* and every other character unchanged, so no string value holds a
\* backslash; a value of another type is unchanged; and normalising the
\* normalised mapping again changes nothing.
C11_BackslashesNormalised ==
    pnorm.done =>
        /\ DOMAIN pnorm.params = DOMAIN pmap
        /\ \A k \in DOMAIN pmap :
              IF pmap[k].kind = "str"
              THEN /\ pnorm.params[k].kind = "str"
                   /\ pnorm.params[k].val.pad = pmap[k].val.pad
                   /\ Len(pnorm.params[k].val.chars) = Len(pmap[k].val.chars)
                   /\ \A i \in 1..Len(pmap[k].val.chars) :
                         pnorm.params[k].val.chars[i] =
                            IF pmap[k].val.chars[i] = "BSL" THEN "/"
                            ELSE pmap[k].val.chars[i]
              ELSE pnorm.params[k] = pmap[k]
        /\ validate_tool_params(pnorm.params) = pnorm.params

\* a task was constructed with a path of two backslashes and a number
C11_TwoBackslashes ==
    /\ pnorm.done
    /\ DOMAIN pmap = {"path", "depth"}
    /\ pmap["path"] = PValue("str", Val(1, <<"BSL", "BSL">>))
    /\ pmap["depth"].kind = "int"
    /\ pnorm.params["path"].val.chars = <<"/", "/">>


(***************************************************************************)
(* Properties of the outcome of a workflow.                                *)
(***************************************************************************)
\* C12 as stated: a workflow that has ended returns the pair of the final
\* result and the completed history of its queue.
C12_ReturnsPair ==
    \A f \in Frames :
        f.pc = "done" =>
            process_queue_returns(f) =
                [value |-> "pair",
                 final_result |-> final_result(f.completed_tasks),
                 completed_tasks |-> f.completed_tasks]

\* C12: process_queue returns nothing; the outcome of a workflow that has
\* ended is left in its queue: completed_tasks holds the completed tasks in
\* the order of their dispatch, and the final result read from it is the
\* result of the last completed task, which is the completion task whenever
\* one was processed, and is absent when none was.
C12_OutcomeLeftInQueue ==
    \A f \in Frames :
        f.pc = "done" =>
            LET done == f.completed_tasks
                n == Len(done)
                First(id) == CHOOSE k \in 1..Len(f.dispatched) :
                                /\ f.dispatched[k] = id
                                /\ \A j \in 1..(k - 1) : f.dispatched[j] # id
            IN /\ process_queue_returns(f).value = "None"
               /\ \A j \in 1..n : \E k \in 1..Len(f.dispatched) : f.dispatched[k] = done[j].id
               /\ \A j \in 1..n : \A k \in (j + 1)..n : First(done[j].id) < First(done[k].id)
               /\ IF \E j \in 1..n : done[j].task_type = "completion"
                  THEN /\ done[n].task_type = "completion"
                       /\ \A j \in 1..(n - 1) : done[j].task_type # "completion"
                       /\ final_result(done) = done[n].result
                       /\ ValLen(final_result(done)) > 0
                  ELSE final_result(done) = NoVal

\* a workflow ended with a completion task after another task
C12_EndedWithResult ==
    \E f \in Frames :
        /\ f.pc = "done" /\ Len(f.completed_tasks) >= 2
        /\ f.completed_tasks[Len(f.completed_tasks)].task_type = "completion"


(***************************************************************************)
(* Properties of the retries after a parse failure.                        *)
(***************************************************************************)
\* the innermost workflow has just failed to parse a response, below the
\* bound of its loop: the planning loop or the follow-up loop goes on
FailedBelowBound ==
    /\ Running
    /\ \/ Top.pc = "correction"
       \/ /\ Top.pc = "plan" /\ Top.plan_log # <<>>
          /\ ~Top.plan_log[Len(Top.plan_log)]
\* the messages the step added to the history of agent a
Added(a) ==
    {agents'[a].messages[k] :
        k \in (Len(agents[a].messages) + 1)..Len(agents'[a].messages)}

\* C13 as stated: after a parse failure below the retry bound, in the
\* planning step or in a follow-up step, the next step is a generation call
\* of the same agent that puts the correction instruction as a user message
\* into the agent's history.
C13_CorrectionStep ==
    FailedBelowBound =>
        /\ calls' = calls + 1
        /\ \E m \in Added(Top.agent) :
              m.role = "user" /\ m.tag = "Previous response could not be parsed"
\* C13 as stated: every step after such a failure is such a call
C13_RetryCarriesCorrection == [][C13_CorrectionStep]_vars


\* the failed attempts of a follow-up step are counted up to three, and a
\* correction call is pending only after the first or the second of them
C14_AttemptsBounded ==
    \A f \in Frames :
        /\ f.fu_retry \in 0..3
        /\ f.pc = "correction" => f.fu_retry \in {1, 2}
        /\ f.pc = "follow_up" => f.current_task = NoTask

\* a correction call counts one more attempt than the calls before it; the
\* failure of the third attempt ends the step: nothing is enqueued, no
\* exception reaches process_queue (no retry of the plan is counted, the run
\* goes on), no further call is pending and, the queue being empty, the
\* workflow returns
C14_GiveUpStep ==
    /\ (Running /\ Top.pc = "correction" /\ heard' \in BadDocs) =>
          /\ Len(stack') = Len(stack)
          /\ TopAfter.fu_retry = Top.fu_retry + 1
          /\ TopAfter.gen = Top.gen + 1
    /\ (Running /\ Top.pc = "correction" /\ Top.fu_retry = 2 /\ heard' \in BadDocs) =>
          /\ TopAfter.pc = "done"
          /\ TopAfter.queue = <<>>
          /\ TopAfter.current_task = NoTask
          /\ TopAfter.completed_tasks = Top.completed_tasks
          /\ TopAfter.retry_count = Top.retry_count
          /\ nextId' = nextId
          /\ ~crashed'

\* C14: a follow-up parse step makes at most three parse attempts and at
\* most two correction calls; when the third attempt fails it enqueues
\* nothing and returns normally, without a further retry.
C14_FollowUpGivesUp == []C14_AttemptsBounded /\ [][C14_GiveUpStep]_vars

\* a follow-up step gave up after its third failed attempt
C14_ThirdAttemptFailed ==
    \E f \in Frames :
        /\ f.fu_retry = 3 /\ f.pc = "done" /\ f.retry_count = 0
        /\ f.gen = 4 /\ Len(f.completed_tasks) = 1


\* C15 as stated: when a parse step gives up at the retry bound, in the
\* planning step or in a follow-up step, what it reports is the raw text of
\* the response that failed last, the one heard in that step.
C15_GiveUpStep ==
    (/\ Running /\ heard' \in BadDocs
     /\ \/ Top.pc = "plan" /\ Top.retry_count = 2
        \/ Top.pc = "correction" /\ Top.fu_retry = 2) =>
        TopAfter.reported = [what |-> "raw", call |-> calls']
\* C15 as stated: every step that gives up is such a step
C15_RawTextReported == [][C15_GiveUpStep]_vars


(***************************************************************************)
(* Properties of Agent.generate_response.                                  *)
(***************************************************************************)
\* the prompt of the generation call the innermost workflow makes next
PromptNext ==
    CASE Top.pc = "plan" -> Top.prompt
      [] Top.pc = "follow_up" -> Top.follow_up
      [] OTHER -> [tag |-> "Previous response could not be parsed", who |-> "",
                   text |-> NoVal]

\* C16: a generation call appends to the history of its agent, in this
\* order, the system prompt (only on an empty history), the summary of the
\* completed tasks (only when the queue has completed tasks), the prompt as
\* a user message and, when the backend answers, its response as an
\* assistant message; the earlier messages stay as they are, and no other
\* agent's history changes.
C16_GenerationStep ==
    (Running /\ calls' = calls + 1) =>
        LET a == Top.agent
            old == agents[a].messages
            now == agents'[a].messages
            new == [k \in 1..(Len(now) - Len(old)) |-> now[Len(old) + k]]
            done == Top.completed_tasks
            kinds == (IF old = <<>> THEN <<"system_prompt">> ELSE <<>>)
                     \o (IF done # <<>> THEN <<"completed_summary">> ELSE <<>>)
                     \o <<"prompt">>
                     \o (IF heard'.form = "raised" THEN <<>> ELSE <<"response">>)
        IN /\ Len(now) >= Len(old)
           /\ \A k \in 1..Len(old) : now[k] = old[k]
           /\ [k \in 1..Len(new) |-> new[k].kind] = kinds
           /\ \A k \in 1..Len(new) :
                 /\ new[k].kind = "system_prompt" => new[k].role = "system"
                 /\ new[k].kind = "completed_summary" =>
                       /\ new[k].role = "system"
                       /\ new[k].ids = [j \in 1..Len(done) |-> done[j].id]
                 /\ new[k].kind = "prompt" =>
                       /\ new[k].role = "user"
                       /\ new[k].tag = PromptNext.tag
                       /\ new[k].who = PromptNext.who
                       /\ new[k].text = PromptNext.text
                 /\ new[k].kind = "response" =>
                       /\ new[k].role = "assistant"
                       /\ new[k].ids = <<calls'>>
           /\ \A b \in Agents \ {a} : agents'[b].messages = agents[b].messages
\* C16: every generation call is such a step
C16_HistoryOrder == [][C16_GenerationStep]_vars

\* a call on a non-empty history with completed tasks was answered
C16_SummaryPromptResponse ==
    \E a \in Agents :
        \E k \in 2..Len(agents[a].messages) :
            /\ k + 2 = Len(agents[a].messages)
            /\ agents[a].messages[k].kind = "completed_summary"
            /\ agents[a].messages[k + 1].kind = "prompt"
            /\ agents[a].messages[k + 2].kind = "response"


(***************************************************************************)
(* Properties of task ownership.                                           *)
(***************************************************************************)
\* C17 as stated: every task of a workflow's queue, pending, current or
\* completed, has the name of the workflow's agent as its owner_agent.
C17_OwnerIsWorkflowAgent ==
    \A f \in Frames :
        \A t \in TaskSet(f.queue) \cup TaskSet(f.completed_tasks)
                 \cup ({f.current_task} \ {NoTask}) :
            t.owner_agent = f.agent


(***************************************************************************)
(* Properties of TaskQueue.                                                *)
(***************************************************************************)
\* C18: get_next_task on an empty pending list returns nothing and changes
\* neither pending, current nor completed; on a non-empty pending list it
\* removes exactly the front task, returns it and makes it current, leaving
\* the other pending tasks in order and completed unchanged.
C18_GetNextTaskStep ==
    last'.op = "get_next_task" =>
        IF Top.queue = <<>>
        THEN /\ last'.result = NoTask
             /\ TopAfter.queue = <<>>
             /\ TopAfter.current_task = Top.current_task
             /\ TopAfter.completed_tasks = Top.completed_tasks
        ELSE /\ last'.result = Top.queue[1]
             /\ TopAfter.current_task = Top.queue[1]
             /\ TopAfter.queue = [k \in 1..(Len(Top.queue) - 1) |-> Top.queue[k + 1]]
             /\ TopAfter.completed_tasks = Top.completed_tasks
\* C18: every call of get_next_task is such a step
C18_GetNextTask == [][C18_GetNextTaskStep]_vars

\* get_next_task returned the front task and left another task pending
C18_FrontTaskReturned ==
    /\ last.op = "get_next_task" /\ last.result # NoTask
    /\ Top.current_task = last.result
    /\ Top.queue # <<>>
    /\ Top.queue[1].id = last.result.id + 1

\* C19: complete_current_task moves the current task to the end of
\* completed and empties current; with no current task it changes nothing,
\* so a second call in a row changes nothing and the task is in completed
\* once.
C19_CompleteStep ==
    last'.op = "complete_current_task" =>
        /\ IF Top.current_task = NoTask
           THEN TopAfter = Top
           ELSE /\ TopAfter.completed_tasks
                      = Append(Top.completed_tasks, Top.current_task)
                /\ TopAfter.current_task = NoTask
                /\ TopAfter.queue = Top.queue
        /\ last'.prev = "complete_current_task" => TopAfter = Top
        /\ complete_current_task(TopAfter) = TopAfter
\* C19: every call of complete_current_task is such a step
C19_CompleteCurrentTask == [][C19_CompleteStep]_vars

\* complete_current_task was called twice in a row on a returned task
C19_CompletedTwice ==
    /\ last.op = "complete_current_task" /\ last.prev = "complete_current_task"
    /\ Len(Top.dispatched) = 1
    /\ Len(Top.completed_tasks) = 1
    /\ Top.completed_tasks[1].id = Top.dispatched[1]

\* C20: the tasks given to add_tasks and add_task are numbered in the order
\* in which they were added.  get_next_task has returned the tasks 1..k in
\* this order, each once; the pending tasks are the tasks k+1.. in this
\* order; completed holds returned tasks in this order, none twice; every
\* task is the task that was added.
C20_FifoOrder ==
    LET f == Top
        k == Len(f.dispatched)
    IN /\ f.dispatched = [j \in 1..k |-> j]
       /\ [j \in 1..Len(f.queue) |-> f.queue[j].id]
             = [j \in 1..(nextId - k) |-> k + j]
       /\ \A j \in 1..Len(f.completed_tasks) :
             /\ f.completed_tasks[j].id \in 1..k
             /\ j > 1 => f.completed_tasks[j - 1].id < f.completed_tasks[j].id
       /\ f.current_task # NoTask =>
             /\ f.current_task.id = k
             /\ \A j \in 1..Len(f.completed_tasks) : f.completed_tasks[j].id < k
       /\ \A t \in TaskSet(f.queue) \cup TaskSet(f.completed_tasks)
                   \cup ({f.current_task} \ {NoTask}) :
             t.task_type = t.plan[t.pos]

\* tasks added by two calls, with calls of the other methods in between,
\* were returned and completed in the order of their addition
C20_TwoBatchesInOrder ==
    /\ last.op = "complete_current_task"
    /\ Len(Top.completed_tasks) = 3
    /\ Top.completed_tasks[1].batch # Top.completed_tasks[3].batch
    /\ Top.completed_tasks[1].task_type = Top.completed_tasks[2].task_type


(***************************************************************************)
(* Properties of the agents' states along the chain of nested workflows.   *)
(***************************************************************************)
StateOf(i) == agents[stack[i].agent].state
NonIdle == {i \in 1..Len(stack) : StateOf(i) # "idle"}
Active == {i \in 1..Len(stack) : StateOf(i) \notin {"idle", "waiting_for_agent"}}

\* C21 as stated: while a subordinate workflow runs, exactly one agent of
\* the chain of nested workflows is in a state other than Idle.
C21_ExactlyOneNonIdle == Len(stack) > 1 => Cardinality(NonIdle) = 1

\* C21: at every point of a run, at most one agent of the chain of nested
\* workflows is in a state other than Idle and WaitingForAgent: while a
\* subordinate workflow runs, every delegating agent of the chain is
\* WaitingForAgent, and only the agent of the innermost workflow can be
\* Thinking or ExecutingTask.
C21_OneActiveAgent ==
    /\ \A i \in 1..(Len(stack) - 1) :
          stack[i].pc = "wait" /\ StateOf(i) = "waiting_for_agent"
    /\ Cardinality(Active) <= 1
    /\ Active \subseteq {Len(stack)}

\* three nested workflows, the innermost agent thinking
C21_TwoWaitingOneThinking ==
    /\ Len(stack) = 3
    /\ StateOf(1) = "waiting_for_agent" /\ StateOf(2) = "waiting_for_agent"
    /\ StateOf(3) = "thinking"

(***************************************************************************)
(* Properties of failures of the backend.                                  *)
(***************************************************************************)
\* C22 as stated: a failure raised by the backend during a generation call
\* (planning, follow-up or correction) is caught by the workflow that made
\* the call and counted as a failure of that run; no exception leaves a
\* process_queue, the outermost one included.
C22_BackendFailureCaught ==
    /\ ~crashed
    /\ \A f \in Frames : f.pc # "raised"

(***************************************************************************)
(* Termination under malformed responses.                                  *)
(***************************************************************************)
\* the tasks a workflow still has to dispatch
Pending(f) == Len(f.queue) + (IF f.current_task # NoTask THEN 1 ELSE 0)
\* a bound on the steps a workflow can still take, and have its subordinates
\* take, without a new valid plan: the attempts left in its parse step and,
\* for each task still to dispatch, the steps of handling this task
Left(f) ==
    CASE f.pc = "plan" -> MAX_RETRIES - f.retry_count
      [] f.pc = "correction" ->
            (MAX_RETRY_ATTEMPTS - f.fu_retry) + MAX_RETRIES
      [] f.pc = "follow_up" -> MAX_RETRY_ATTEMPTS + MAX_RETRIES
      [] f.pc = "wait" ->
            (MAX_RETRY_ATTEMPTS + 2 * MAX_RETRIES + 2) * Pending(f)
            - (MAX_RETRIES + 1)
      [] f.pc = "drain" ->
            (MAX_RETRY_ATTEMPTS + 2 * MAX_RETRIES + 2) * Pending(f)
      [] OTHER -> 0
RECURSIVE LeftFrom(_)
LeftFrom(i) == IF i > Len(stack) THEN 0 ELSE Left(stack[i]) + LeftFrom(i + 1)
StepsLeft == LeftFrom(1)
Ended == crashed \/ (Len(stack) = 1 /\ Top.pc = "done")

\* C23: a step whose generation call got no valid plan, and a step without
\* a generation call, lowers a bound on the steps that are left to the
\* workflows of the call chain: a parse step counts its attempts up to 3,
\* and a workflow dispatches again only the tasks it still has.
C23_BoundStep ==
    ~model_validate_json(heard').ok =>
        /\ StepsLeft' < StepsLeft
        /\ StepsLeft' >= 0
\* C23: the bound is zero only when every workflow of the chain has ended
C23_BoundZeroAtEnd ==
    /\ StepsLeft >= 0
    /\ (StepsLeft = 0 /\ ~crashed) => Top.pc = "done"
    /\ \A f \in Frames : f.retry_count <= MAX_RETRIES /\ f.fu_retry <= MAX_RETRY_ATTEMPTS
\* C23: nothing is retried indefinitely: if from some point on every
\* response is malformed, every workflow of the call chain ends after
\* finitely many generation calls
C23_NoIndefiniteRetry == []C23_BoundZeroAtEnd /\ [][C23_BoundStep]_vars

\* the outermost workflow has ended after a subordinate ran and one of its
\* own follow-up steps got three malformed responses
C23_EndedAfterMalformed ==
    /\ Ended /\ ~crashed
    /\ Top.plan_log = <<TRUE>>
    /\ Top.fu_retry = MAX_RETRY_ATTEMPTS
    /\ agents["Mid"].messages # <<>>
    /\ ~model_validate_json(heard).ok

(***************************************************************************)
(* Properties of the dispatch of a tool task.                              *)
(***************************************************************************)
LastOf(q) == q[Len(q)]
BeforeToolFollowUp ==
    Running /\ Top.pc = "follow_up"
    /\ Top.follow_up.tag = "Process the results of tool"

\* C24: a workflow that stands before the follow-up call of a tool task has
\* the result of that tool as the last message of its agent's history, the
\* task as the last entry of completed and no current task.
C24_CompletedBeforeFollowUp ==
    BeforeToolFollowUp =>
        LET a == Top.agent
            task == LastOf(Top.completed_tasks)
        IN /\ Top.completed_tasks # <<>> /\ Top.dispatched # <<>>
           /\ task.id = LastOf(Top.dispatched)
           /\ task.task_type = "tool" /\ task.tool_name = Top.follow_up.who
           /\ Top.current_task = NoTask
           /\ agents[a].messages # <<>>
           /\ LastOf(agents[a].messages).kind = "tool_result"
           /\ LastOf(agents[a].messages).who = task.tool_name
\* C24: the dispatch of a tool task whose tool returns records the result
\* and completes the task in one go; the follow-up call that comes next
\* sends a summary of the completed tasks that ends with this task.
C24_ToolStep ==
    /\ Dispatching("tool") =>
          IF execute_tool_raises(NextUp(Top).tool_name)
          THEN /\ TopAfter.pc # "follow_up"
               /\ agents'[Top.agent].messages = agents[Top.agent].messages
          ELSE /\ TopAfter.pc = "follow_up"
               /\ TopAfter.follow_up = ToolFollowUpPrompt(NextUp(Top).tool_name)
               /\ TopAfter.completed_tasks = Append(Top.completed_tasks, NextUp(Top))
               /\ calls' = calls
    /\ BeforeToolFollowUp =>
          /\ calls' = calls + 1
          /\ \E m \in Added(Top.agent) :
                /\ m.kind = "completed_summary"
                /\ LastOf(m.ids) = LastOf(Top.dispatched)
\* C24: for every tool task, the task is moved from current to completed
\* after its result has been recorded and before the follow-up call is made
C24_ToolTaskCompletedFirst == []C24_CompletedBeforeFollowUp /\ [][C24_ToolStep]_vars

\* a workflow stands before the follow-up call of its second tool task
C24_SecondToolBeforeFollowUp ==
    /\ Running /\ Top.pc = "follow_up"
    /\ Len(Top.completed_tasks) = 2
    /\ Top.completed_tasks[1].task_type = "tool"
    /\ Top.completed_tasks[2].task_type = "tool"

(***************************************************************************)
(* Properties of the return of a nested workflow.                          *)
(***************************************************************************)
\* the nested process_queue of the innermost workflow has returned
Returning == Running /\ Len(stack) > 1 /\ Top.pc = "done"
DelegatorAfter == stack'[Len(stack) - 1]
EndsInCompletion(f) ==
    f.completed_tasks # <<>> /\ LastOf(f.completed_tasks).task_type = "completion"

\* C25: after a nested run has returned, the delegator adds a
\* subordinate-result note and stands before a follow-up generation call if
\* and only if the subordinate's completed list is non-empty and ends with a
\* completion task; otherwise it adds no message and makes no follow-up
\* call; in both cases the delegating task is appended to completed.  A
\* workflow that stands before a follow-up call makes it in its next step.
C25_ReturnStep ==
    /\ Returning =>
          LET a == Delegator.agent
              task == Delegator.current_task
          IN /\ Len(stack') = Len(stack) - 1
             /\ calls' = calls
             /\ DelegatorAfter.completed_tasks
                   = Append(Delegator.completed_tasks, task)
             /\ DelegatorAfter.current_task = NoTask
             /\ IF EndsInCompletion(Top)
                THEN /\ agents'[a].messages =
                           Append(agents[a].messages,
                                  AgentResultMsg(task.agent_name,
                                                 LastOf(Top.completed_tasks).result))
                     /\ DelegatorAfter.pc = "follow_up"
                     /\ DelegatorAfter.follow_up = AgentFollowUpPrompt(task.agent_name)
                ELSE /\ agents'[a].messages = agents[a].messages
                     /\ DelegatorAfter.pc \in {"drain", "done"}
                     /\ DelegatorAfter.gen = Delegator.gen
    /\ (Running /\ Top.pc = "follow_up") =>
          /\ calls' = calls + 1
          /\ TopAfter.gen = Top.gen + 1
\* C25: every return of a nested run is such a step
C25_NoteIffCompletion == [][C25_ReturnStep]_vars

\* a nested run that ended in a tool task has returned: no note, the
\* delegating task is completed
C25_ReturnedWithoutCompletion ==
    /\ Running /\ Len(stack) = 1 /\ Top.pc \in {"drain", "done"}
    /\ Top.completed_tasks # <<>>
    /\ LastOf(Top.completed_tasks).task_type = "agent"
    /\ LastOf(Top.completed_tasks).agent_name = "Mid"
    /\ agents["Mid"].state = "idle"
    /\ \E k \in 1..Len(agents["Mid"].messages) :
          agents["Mid"].messages[k].kind = "tool_result"
    /\ \A k \in 1..Len(agents["Sup"].messages) :
          agents["Sup"].messages[k].kind # "agent_result"

\* the workflow has processed a completion task, or one of its retry
\* counters has reached its bound
CompletionOrRetriesUsed(f) ==
    \/ EndsInCompletion(f)
    \/ f.retry_count = MAX_RETRIES
    \/ f.fu_retry = MAX_RETRY_ATTEMPTS

\* C26 as stated: a nested workflow returns to its delegator only after it
\* has processed a completion task or after one of its own parse steps has
\* used up its retries.
C26_ReturnsOnlyAfterCompletionOrRetries ==
    Returning => CompletionOrRetriesUsed(Top)

\* C26: a nested workflow returns to its delegator only after it has
\* processed a completion task, after one of its own retry counters has
\* reached its bound of 3, or after its queue has run empty behind an agent
\* task that led to no follow-up call.
C26_ReturnsOnlyWhenEnded ==
    Returning =>
        \/ CompletionOrRetriesUsed(Top)
        \/ /\ Top.queue = <<>> /\ Top.current_task = NoTask
           /\ Top.completed_tasks # <<>>
           /\ LastOf(Top.completed_tasks).task_type = "agent"
           /\ LastOf(Top.completed_tasks).id = LastOf(Top.dispatched)
           /\ agents[Top.agent].messages # <<>>
           /\ LastOf(agents[Top.agent].messages).kind = "response"

\* a nested workflow returns after a delegation of its own that gave no
\* result, with no completion task and with retries left
C26_ReturnsWithEmptyQueue ==
    /\ Returning
    /\ Top.agent = "Mid"
    /\ ~CompletionOrRetriesUsed(Top)
    /\ LastOf(Top.completed_tasks).agent_name = "Sub"
    /\ agents["Sub"].messages # <<>>

\* C27: from the step that starts a nested workflow for an agent task until
\* the step in which that nested run ends, the delegating agent's state is
\* WaitingForAgent, and no step of the subordinate chain (its generation
\* calls, its tools, its own delegations and their returns) changes the
\* state or the history of the delegating agent.
C27_WaitingStep ==
    /\ Len(stack') = Len(stack) + 1 =>
          /\ agents'[Top.agent].state = "waiting_for_agent"
          /\ stack'[Len(stack)].pc = "wait"
          /\ stack'[Len(stack')].agent \notin {stack[i].agent : i \in 1..Len(stack)}
    /\ \A i \in 1..(Len(stack) - 1) :
          /\ StateOf(i) = "waiting_for_agent"
          /\ i < Len(stack') =>
                /\ agents'[stack[i].agent] = agents[stack[i].agent]
                /\ stack'[i] = stack[i]
\* C27: every step of a run is such a step
C27_DelegatorWaits == [][C27_WaitingStep]_vars

\* the outermost agent is waiting while the subordinate of its subordinate
\* has taken steps of its own
C27_WaitingThroughNestedDelegation ==
    /\ Len(stack) = 3
    /\ StateOf(1) = "waiting_for_agent"
    /\ Top.gen > 0
    /\ Top.pc \in {"drain", "follow_up"}

\* task t of workflow f names one of the subordinates of f's agent
Delegates(f, t) ==
    t.task_type = "agent" /\ t.agent_name \in agent_objects(f.agent)

\* C28: a task that delegates to a known subordinate is appended to
\* completed only in the step in which the nested workflow started for it
\* returns, when no workflow of the subordinate's tree is left; from the
\* start of the nested workflow until then the task stays the delegator's
\* current task and the delegator dequeues no task.
C28_DelegationStep ==
    \A i \in 1..Len(stack) :
        i <= Len(stack') =>
            LET f == stack[i]
                g == stack'[i]
                t == f.current_task
            IN /\ ( /\ Len(g.completed_tasks) > Len(f.completed_tasks)
                    /\ Delegates(f, LastOf(g.completed_tasks)) ) =>
                      /\ f.pc = "wait"
                      /\ i = Len(stack) - 1 /\ Len(stack') = i
                      /\ Top.pc = "done" /\ Top.agent = t.agent_name
                      /\ g.completed_tasks = Append(f.completed_tasks, t)
               /\ Delegates(f, t) =>
                      /\ g.task_count = f.task_count
                      /\ g.current_task \in {t, NoTask}
                      /\ g.current_task = NoTask =>
                            g.completed_tasks = Append(f.completed_tasks, t)
               /\ f.pc = "wait" => Delegates(f, t) /\ i < Len(stack)
\* C28: every step of a run is such a step
C28_CompletedAfterReturn == [][C28_DelegationStep]_vars

\* the nested workflow of a subordinate that delegated itself has returned
\* and its delegating task is completed, the outermost one still waits
C28_InnerDelegationCompleted ==
    /\ Len(stack) = 2 /\ Top.agent = "Mid"
    /\ stack[1].pc = "wait" /\ stack[1].current_task.agent_name = "Mid"
    /\ Top.completed_tasks # <<>>
    /\ LastOf(Top.completed_tasks).agent_name = "Sub"
    /\ agents["Sub"].messages # <<>>

(***************************************************************************)
(* Properties of the queues of nested workflows.                           *)
(***************************************************************************)
\* the tasks a workflow's queue holds: pending, current and completed
Held(f) ==
    {t.id : t \in TaskSet(f.queue) \cup TaskSet(f.completed_tasks)
                  \cup ({f.current_task} \ {NoTask})}

\* C29: the step that starts a nested workflow gives it a queue whose
\* pending, current and completed are empty; a step taken while a workflow
\* is below the innermost one leaves its pending, current and completed as
\* they are, so they are the same when the nested run ends as when it
\* started.
C29_QueueStep ==
    /\ Len(stack') = Len(stack) + 1 =>
          LET new == stack'[Len(stack')]
          IN /\ new.queue = <<>>
             /\ new.current_task = NoTask
             /\ new.completed_tasks = <<>>
             /\ new.pc = "plan" /\ new.gen = 0
             /\ TopAfter.queue = Behind(Top)
             /\ TopAfter.current_task = NextUp(Top)
             /\ TopAfter.completed_tasks = Top.completed_tasks
    /\ \A i \in 1..(Len(stack) - 1) :
          i < Len(stack') =>
              /\ stack'[i].queue = stack[i].queue
              /\ stack'[i].current_task = stack[i].current_task
              /\ stack'[i].completed_tasks = stack[i].completed_tasks
\* C29: no task is held by the queues of two workflows, and a workflow
\* that waits for a nested run holds the delegating task as its current one
C29_OwnQueue ==
    /\ \A i, j \in 1..Len(stack) : i # j => Held(stack[i]) \cap Held(stack[j]) = {}
    /\ \A i \in 1..(Len(stack) - 1) :
          /\ stack[i].current_task # NoTask
          /\ stack[i].current_task.id = LastOf(stack[i].dispatched)
\* C29: every nested workflow starts on an empty queue of its own, and the
\* delegator's queue is untouched while the nested workflow runs
C29_FreshQueueDelegatorUntouched == []C29_OwnQueue /\ [][C29_QueueStep]_vars

\* a nested run has ended with tasks of its own completed while its
\* delegator still holds the delegating task and a pending one
C29_NestedRunEnded ==
    /\ Returning
    /\ Top.completed_tasks # <<>>
    /\ Delegator.queue # <<>>
    /\ Delegator.current_task.agent_name = Top.agent

(***************************************************************************)
(* Properties of the end of _process_next_task.                            *)
(***************************************************************************)
\* the workflow has dispatched a task and is not inside the handling of one
BetweenTasks(f) == f.dispatched # <<>> /\ f.pc \in {"drain", "plan", "done"}

\* C30 as stated: after the engine has handled a task of any type, the
\* queue's current slot is empty, the handled task is the most recent entry
\* of completed and the executing agent's state is Idle.
C30_HandledTaskCompleted ==
    \A f \in Frames :
        BetweenTasks(f) =>
            /\ f.current_task = NoTask
            /\ f.completed_tasks # <<>>
            /\ LastOf(f.completed_tasks).id = LastOf(f.dispatched)
            /\ agents[f.agent].state = "idle"

(***************************************************************************)
(* Properties of the queue of a running workflow.                          *)
(***************************************************************************)
\* C31: a step in which a workflow calls get_next_task starts with an empty
\* current slot and a pending task, which it returns; a task that is
\* current is replaced only by being moved to completed, never by the next
\* task.
C31_DequeueStep ==
    \A i \in 1..Len(stack) :
        i <= Len(stack') =>
            LET f == stack[i]
                g == stack'[i]
            IN /\ g.task_count > f.task_count =>
                     /\ f.current_task = NoTask
                     /\ f.queue # <<>>
                     /\ g.task_count = f.task_count + 1
                     /\ LastOf(g.dispatched) = f.queue[1].id
               /\ (f.current_task # NoTask /\ g.current_task # f.current_task) =>
                     /\ g.current_task = NoTask
                     /\ g.completed_tasks = Append(f.completed_tasks, f.current_task)
\* C31: every step of a run is such a step
C31_NoDequeueOverCurrent == [][C31_DequeueStep]_vars

\* a workflow has dispatched its current task again, without a call of
\* get_next_task, while tasks were pending behind it
C31_CurrentKeptBeforePending ==
    \E f \in Frames :
        /\ f.current_task # NoTask
        /\ f.queue # <<>>
        /\ Len(f.dispatched) > f.task_count

IsPrefix(p, q) == Len(p) <= Len(q) /\ \A k \in 1..Len(p) : q[k] = p[k]

\* C32: every step of a workflow (enqueue, dequeue, completion, clearing of
\* the pending tasks, generation call, retry) leaves the old value of
\* completed as a prefix of the new one and adds at most one task, the one
\* that was current or was dequeued in this step.
C32_CompletedStep ==
    \A i \in 1..Len(stack) :
        i <= Len(stack') =>
            LET f == stack[i]
                g == stack'[i]
            IN /\ IsPrefix(f.completed_tasks, g.completed_tasks)
               /\ Len(g.completed_tasks) <= Len(f.completed_tasks) + 1
               /\ Len(g.completed_tasks) > Len(f.completed_tasks) =>
                     LastOf(g.completed_tasks) = NextUp(f)
\* C32: the completed list of a queue is append-only
C32_CompletedAppendOnly == [][C32_CompletedStep]_vars

\* a workflow with two completed tasks has been through a retry of its
\* plan and several generation calls
C32_HistoryKeptAcrossRetry ==
    \E f \in Frames :
        /\ Len(f.completed_tasks) >= 2
        /\ f.retry_count > 0
        /\ f.gen >= 3

\* C33 as stated: whenever process_queue returns, its queue has neither a
\* pending nor a current task, and every task that was dequeued is in
\* completed.
C33_NothingInFlightAtReturn ==
    \A f \in Frames :
        f.pc = "done" =>
            /\ f.queue = <<>>
            /\ f.current_task = NoTask
            /\ \A k \in 1..Len(f.dispatched) :
                  f.dispatched[k] \in {t.id : t \in TaskSet(f.completed_tasks)}

\* the place in the history of agent a of its last message of a kind
LastAt(a, kind) ==
    LET ks == {k \in 1..Len(agents[a].messages) : agents[a].messages[k].kind = kind}
    IN IF ks = {} THEN 0 ELSE CHOOSE k \in ks : \A j \in ks : j <= k
\* the number of the last generation call of agent a that was answered
LastResponseCall(a) ==
    IF LastAt(a, "response") = 0 THEN 0
    ELSE agents[a].messages[LastAt(a, "response")].ids[1]

\* C34: the pending tasks of a workflow are all tasks of the response to its
\* agent's latest generation call, and that call was answered: no prompt has
\* been sent since.
C34_PendingIsLatest ==
    \A f \in Frames :
        f.queue # <<>> =>
            /\ \A t \in TaskSet(f.queue) : t.batch = LastResponseCall(f.agent)
            /\ LastAt(f.agent, "prompt") < LastAt(f.agent, "response")
\* C34: a generation call (initial, follow-up or correction) leaves none of
\* the tasks that were pending before it in the pending list, and none of
\* them is dispatched by it; what is pending afterwards was admitted from
\* its response.
C34_GenerationStep ==
    (Running /\ calls' = calls + 1 /\ Len(stack') = Len(stack)) =>
        /\ TaskSet(TopAfter.queue) \cap TaskSet(Top.queue) = {}
        /\ \A t \in TaskSet(TopAfter.queue) : t.batch = calls' /\ t.id > nextId
        /\ TopAfter.dispatched = Top.dispatched
        /\ TopAfter.current_task \in {Top.current_task, NoTask}
\* C34: every generation call empties the pending list before the backend
\* is asked, so the list only ever holds tasks of the latest parsed response
C34_PendingClearedByGeneration == []C34_PendingIsLatest /\ [][C34_GenerationStep]_vars

\* the follow-up of a tool task was generated while a task of the plan was
\* pending, and the workflow went on with a task of the new response
C34_OldPlanDropped ==
    \E f \in Frames :
        /\ Len(f.completed_tasks) = 1
        /\ f.completed_tasks[1].task_type = "tool"
        /\ Len(f.completed_tasks[1].plan) = 2
        /\ f.current_task # NoTask
        /\ f.current_task.batch > f.completed_tasks[1].batch

(***************************************************************************)
(* Properties of errors raised while the queue is drained.                 *)
(***************************************************************************)
\* a response to the initial prompt has been parsed and its tasks enqueued
PlanAdmitted(f) == \E k \in 1..Len(f.plan_log) : f.plan_log[k]

\* C35 as stated: once a response to the initial prompt has been parsed and
\* its tasks enqueued, process_queue does not stand before another call
\* with the initial prompt, and its retry counter counts nothing but the
\* responses to the initial prompt that could not be parsed.
C35_NoReplanAfterAdmission ==
    \A f \in Frames :
        PlanAdmitted(f) =>
            /\ f.pc # "plan"
            /\ f.retry_count = Cardinality({k \in 1..Len(f.plan_log) : ~f.plan_log[k]})

\* C36 as stated: every admitted task is dispatched at most once, also when
\* an error occurred during its dispatch and the workflow went on.
C36_DispatchedAtMostOnce ==
    \A f \in Frames :
        \A j, k \in 1..Len(f.dispatched) :
            j # k => f.dispatched[j] # f.dispatched[k]

NoRepeat(q) == \A j, k \in 1..Len(q) : j # k => q[j].id # q[k].id
IdsOf(q) == {t.id : t \in TaskSet(q)}

\* C37: a task admitted to a queue is in at most one of pending, current
\* and completed, and it occurs at most once in pending and at most once in
\* completed, although the dispatch of a tool task and of a delegation calls
\* complete_current_task twice.
C37_OnePlacePerTask ==
    \A f \in Frames :
        /\ NoRepeat(f.queue)
        /\ NoRepeat(f.completed_tasks)
        /\ IdsOf(f.queue) \cap IdsOf(f.completed_tasks) = {}
        /\ f.current_task # NoTask =>
              f.current_task.id \notin IdsOf(f.queue) \cup IdsOf(f.completed_tasks)

\* a delegating task has been through both calls of complete_current_task
\* (before the follow-up call and at the end of _process_next_task), and a
\* task of the follow-up's response is pending
C37_CompletedTwiceOver ==
    \E f \in Frames :
        /\ f.pc = "drain"
        /\ Len(f.completed_tasks) = 1
        /\ f.completed_tasks[1].task_type = "agent"
        /\ \E k \in 1..Len(agents[f.agent].messages) :
              agents[f.agent].messages[k].kind = "agent_result"
        /\ f.queue # <<>>

\* C38 as stated: whenever process_queue returns, after a successful drain
\* and after a terminal parse failure alike, the workflow's primary agent is
\* in state Idle.
C38_IdleAtReturn ==
    \A f \in Frames : f.pc = "done" => agents[f.agent].state = "idle"

\* C39: every execution of a tool asked the user exactly when the tool
\* requires approval; its action ran only with the user's approval, and on
\* refusal the action did not run and the cancellation text was returned.
C39_ApprovedBeforeRun ==
    \A f \in Frames : \A k \in 1..Len(f.tool_log) :
        LET x == f.tool_log[k]
        IN /\ x.asked = (x.tool \in RequiresApproval)
           /\ x.ran => (~x.asked \/ x.approved)
           /\ (x.asked /\ ~x.approved) =>
                 (~x.ran /\ x.text = "Tool execution cancelled by user")
           /\ ~x.asked => x.ran
\* C39: whatever the tool returned, the cancellation text included, the
\* dispatch records that text as the tool result, completes the task and
\* stands before the follow-up call, and the follow-up call is made.
C39_ToolResultStep ==
    /\ (Dispatching("tool") /\ ~execute_tool_raises(NextUp(Top).tool_name)) =>
          /\ Len(TopAfter.tool_log) = Len(Top.tool_log) + 1
          /\ LET x == LastOf(TopAfter.tool_log)
                 task == NextUp(Top)
             IN /\ x.id = task.id /\ x.tool = task.tool_name
                /\ LastOf(agents'[Top.agent].messages)
                      = ToolResultMsg(task.tool_name, x.text)
                /\ TopAfter.completed_tasks = Append(Top.completed_tasks, task)
                /\ TopAfter.current_task = NoTask
                /\ TopAfter.pc = "follow_up"
                /\ TopAfter.follow_up = ToolFollowUpPrompt(task.tool_name)
    /\ BeforeToolFollowUp =>
          /\ calls' = calls + 1
          /\ \E m \in Added(Top.agent) : m.kind = "prompt"
\* C39: a tool that requires approval runs its action only after the user
\* approved that execution; on refusal the action is not run, the text
\* "Tool execution cancelled by user" is the tool result, and the workflow
\* completes the task and generates the follow-up as for any other result
C39_RefusalIsAToolResult == []C39_ApprovedBeforeRun /\ [][C39_ToolResultStep]_vars

\* the user refused a create_file, the task is completed, the cancellation
\* text is in the agent's history and the follow-up has been answered
C39_RefusedThenFollowedUp ==
    \E f \in Frames : \E k \in 1..Len(f.tool_log) :
        LET x == f.tool_log[k]
            msgs == agents[f.agent].messages
        IN /\ x.asked /\ ~x.approved /\ ~x.ran
           /\ x.id \in IdsOf(f.completed_tasks)
           /\ \E i \in 1..Len(msgs) : \E j \in 1..Len(msgs) :
                 /\ i < j
                 /\ msgs[i] = ToolResultMsg(x.tool, "Tool execution cancelled by user")
                 /\ msgs[j].kind = "response"

\* C40 as stated, the context: get_state_context reports a task_name only
\* while the state is ExecutingTask and a waiting_for_agent only while the
\* state is WaitingForAgent.
C40_ContextOfState ==
    LET context == get_state_context(manager)
    IN /\ "task_name" \in DOMAIN context => context["state"] = "executing_task"
       /\ "waiting_for_agent" \in DOMAIN context =>
             context["state"] = "waiting_for_agent"
\* C40 as stated, the completion: complete_current_task sets the state to
\* Idle when no task is pending afterwards and leaves the state and its
\* context alone when one is.
C40_CompleteStep ==
    last'.op = "complete_current_task" =>
        IF has_pending_tasks(stack'[1])
        THEN manager' = manager
        ELSE manager'.current_state = "idle"
\* C40 as stated: after any sequence of set_state and complete_current_task
\* calls the context names a task only in ExecutingTask and an agent only in
\* WaitingForAgent, and complete_current_task sets Idle exactly when no task
\* is pending afterwards.
C40_ContextMatchesState == []C40_ContextOfState /\ [][C40_CompleteStep]_vars

====
